---- MODULE Spec2Model ----
(***************************************************************************)
(* r-bustub: a paged buffer pool (LRU replacer, single buffer pool         *)
(* instance behind the parallel buffer pool's per-instance mutex, disk     *)
(* manager) and the extendible hash table built on top of it.              *)
(*                                                                         *)
(* Every operation of the Rust source is a pure operator over the state it *)
(* reads and writes (the instance record, the disk image); the actions of  *)
(* the specifications apply one whole call each.                            *)
(***************************************************************************)
EXTENDS Integers, Sequences, FiniteSets, TLC

(***************************************************************************)
(* Bounds of the model.                                                    *)
(***************************************************************************)
\* frames of the buffer pool instance driven directly by pool callers
PoolSize == 2
\* stride of the page id stream (num_instances of the parallel pool)
NumInstances == 2
\* page ids a caller may name: 0, N, 2N, .. (MaxPages - 1) * N
MaxPages == 3
\* a caller stops re-fetching a page it already holds MaxPin times
MaxPin == 2
\* payload bytes a caller may write into the first byte of a page
MaxByte == 1
\* a caller stops deleting pages while MaxDeleted deleted ids await reuse
MaxDeleted == 1
\* frames of the buffer pool instance under the hash table
EhtPoolSize == 3
\* keys 0 .. MaxKey and values 0 .. MaxValue given to the hash table
MaxKey == 2
MaxValue == 1
\* slots of a bucket page (Tool::<K, V>::KV_NUM) when the pair type leaves
\* room for any; a pair type of 512 bytes or more leaves room for none
MaxKvNum == 2
\* threads that share one parallel pool
NumThreads == 3
\* new_page / new_page_run calls those threads make between them
MaxCalls == 3
\* the parallel pool is constructed with pool_size 1 .. MaxPbpPoolSize
MaxPbpPoolSize == 3
\* threads that call one pool instance while they hold payload guards
NumLockThreads == 2
\* callers of the parallel pool name the page ids 0 .. MaxPbpPage
MaxPbpPage == 2
\* a bucket page driven directly has KV_NUM in 0 .. MaxSlots
MaxSlots == 3
\* a caller that follows the page ids stops deleting at MaxDeletedIds ids
MaxDeletedIds == 2
\* pages another holder of the pool keeps beside the hash table's
MaxOtherPages == 2
\* a replacer driven directly is built for 1 .. MaxLruFrames frames
MaxLruFrames == 3
\* its callers stop calling unpin while the list holds MaxLruLen nodes
MaxLruLen == 4

(***************************************************************************)
(* Values.                                                                 *)
(***************************************************************************)
\* Option<PageId>::None of Page.page_id
NoPage == -1
\* Option<FrameId>::None returned by victim() / alloc_frame()
NoFrame == -1

\* Align4096([0u8; PAGE_SIZE]): the all-zero payload
ZeroData == [kind |-> "zero"]
\* a payload whose first byte a pool caller has written
RawData(byte) == [kind |-> "raw", byte0 |-> byte]

\* the page ids that route to instance 0 (page_id % num_instances = 0)
PageIds == {i * NumInstances : i \in 0 .. (MaxPages - 1)}

VARIABLES
    bpi,      \* the BufferPoolManager behind instance 0's mutex
    disk,     \* the disk manager's file: page id -> payload last written
    ret,      \* the last pool call made and what it returned
    eht,      \* the ExtendibleHashTable and the state of the thread that owns it
    eret,     \* the last hash table call made and what it returned
    pairs,    \* the pairs whose insert returned true and whose remove has not
    pbp,      \* the ParallelBufferPoolManager shared by several threads
    thr,      \* where each of those threads is in the call it is making
    issued,   \* the page ids the parallel pool has handed out, call by call
    lru,      \* an LRUReplacer driven directly by its callers
    lret,     \* the last replacer call, what it returned, and the calls so far
    mutex,    \* the thread inside the Mutex of the instance `bpi`, 0 if none
    bucket_page  \* a HashTableBucketPage driven directly by its callers

vars == <<bpi, disk, ret, eht, eret, pairs, pbp, thr, issued, lru, lret, mutex, bucket_page>>

(***************************************************************************)
(* Disk manager (storage/disk/disk_manager.rs).                            *)
(***************************************************************************)
\* write_at(page, page_id * PAGE_SIZE): the file grows as needed
write_page(d, page_id, data) ==
    [p \in (DOMAIN d) \cup {page_id} |-> IF p = page_id THEN data ELSE d[p]]

\* read_at(buf, page_id * PAGE_SIZE).unwrap(): a hole reads as zeros, a read
\* at or past the end of the file returns 0 bytes and leaves buf as it was
read_page(d, page_id, buf) ==
    IF page_id \in DOMAIN d THEN d[page_id]
    ELSE IF \E q \in DOMAIN d : q > page_id THEN ZeroData
    ELSE buf

(***************************************************************************)
(* LRUReplacer (buffer/replacer.rs): the linked list, front = oldest.      *)
(* index[f] is Some exactly for the frames in the list.                    *)
(***************************************************************************)
victim(r) ==
    IF r = <<>> THEN [replacer |-> r, frame |-> NoFrame]
    ELSE [replacer |-> Tail(r), frame |-> Head(r)]

pin(r, frame_id) == SelectSeq(r, LAMBDA x : x # frame_id)

unpin(r, frame_id) == Append(r, frame_id)

(***************************************************************************)
(* Page (storage/pages/page.rs).                                           *)
(***************************************************************************)
Page_new == [data |-> ZeroData, page_id |-> NoPage, is_dirty |-> FALSE, pin_count |-> 0]

(***************************************************************************)
(* BufferPoolManager (buffer/buffer_pool_manager.rs).                      *)
(***************************************************************************)
BufferPoolManager_new(pool_size, num_instances, instance_index) ==
    [ pool_size        |-> pool_size,
      num_instances    |-> num_instances,
      instance_index   |-> instance_index,
      deleted_page_ids |-> <<>>,
      next_page_id     |-> instance_index,
      replacer         |-> <<>>,
      frames           |-> [f \in 0 .. (pool_size - 1) |-> Page_new],
      page_table       |-> [p \in {} |-> NoFrame],
      free_list        |-> [i \in 1 .. pool_size |-> i - 1],
      poisoned         |-> FALSE ]

TableRemove(pt, page_id) == [p \in (DOMAIN pt) \ {page_id} |-> pt[p]]

TableInsert(pt, page_id, frame_id) ==
    [p \in (DOMAIN pt) \cup {page_id} |-> IF p = page_id THEN frame_id ELSE pt[p]]

alloc_frame(b) ==
    IF b.free_list # <<>>
    THEN [ b     |-> [b EXCEPT !.free_list = SubSeq(@, 1, Len(@) - 1)],
           frame |-> b.free_list[Len(b.free_list)] ]
    ELSE LET v == victim(b.replacer)
         IN  [ b |-> [b EXCEPT !.replacer = v.replacer], frame |-> v.frame ]

\* an id stream that hands out next_page_id without advancing it
alloc_page_id_same(b) == [b |-> b, page_id |-> b.next_page_id]

alloc_page_id(b) ==
    IF b.deleted_page_ids # <<>>
    THEN [ b       |-> [b EXCEPT !.deleted_page_ids = SubSeq(@, 1, Len(@) - 1)],
           page_id |-> b.deleted_page_ids[Len(b.deleted_page_ids)] ]
    ELSE [ b       |-> [b EXCEPT !.next_page_id = @ + b.num_instances],
           page_id |-> b.next_page_id ]

\* a pool that reuses a frame without writing its dirty payload back
evict_write_skipped(d, victim_page) == d

\* the write-back of a frame about to be reused (lines 83-86 and 122-125)
evict_write(d, victim_page) ==
    IF victim_page.is_dirty
    THEN write_page(d, victim_page.page_id, victim_page.data)
    ELSE d

\* the page id that write-back wrote, for the record of the call
evict_wrote(victim_page) ==
    IF victim_page.is_dirty THEN victim_page.page_id ELSE NoPage

\* the frame a miss of fetch_page takes: the replacer's victim (line 80)
fetch_victim(b) ==
    LET v == victim(b.replacer)
    IN  [ b |-> [b EXCEPT !.replacer = v.replacer], frame |-> v.frame ]

fetch_page(b, d, page_id) ==
    IF page_id \in DOMAIN b.page_table
    THEN LET f == b.page_table[page_id]
         IN  [ b  |-> [b EXCEPT !.replacer = pin(@, f),
                                !.frames[f].pin_count = @ + 1],
               d  |-> d,
               ok |-> TRUE,
               wrote |-> NoPage ]
    ELSE LET a == fetch_victim(b)
             f == a.frame
         IN  IF f = NoFrame
             THEN [b |-> b, d |-> d, ok |-> FALSE, wrote |-> NoPage]
             ELSE LET victim_page == a.b.frames[f]
                      d1 == evict_write(d, victim_page)
                      pt == TableInsert(TableRemove(a.b.page_table, victim_page.page_id),
                                        page_id, f)
                  IN  [ b  |-> [a.b EXCEPT
                                  !.replacer   = pin(@, f),
                                  !.page_table = pt,
                                  !.frames[f]  = [ data      |-> read_page(d1, page_id, victim_page.data),
                                                   page_id   |-> page_id,
                                                   is_dirty  |-> FALSE,
                                                   pin_count |-> 1 ]],
                        d  |-> d1,
                        ok |-> TRUE,
                        wrote |-> evict_wrote(victim_page) ]

\* an unpin that overwrites the dirty flag with its argument
unpin_dirty_overwrite(was_dirty, is_dirty) == is_dirty

\* the dirty flag unpin_page leaves on the frame (lines 105-107)
unpin_dirty(was_dirty, is_dirty) == IF ~was_dirty THEN is_dirty ELSE was_dirty

\* page_table.get(&page_id).unwrap() panics on a page that is not resident,
\* and the panic poisons the instance's mutex; the caller's contract
\* (pin_count > 0) is the guard of the action that calls this
unpin_page(b, page_id, is_dirty) ==
    IF page_id \notin DOMAIN b.page_table
    THEN [b EXCEPT !.poisoned = TRUE]
    ELSE LET f     == b.page_table[page_id]
             count == b.frames[f].pin_count - 1
         IN  [b EXCEPT
                !.frames[f].pin_count = count,
                !.replacer = IF count = 0 THEN unpin(@, f) ELSE @,
                !.frames[f].is_dirty = unpin_dirty(@, is_dirty)]

flush_page(b, d, page_id) ==
    IF page_id \notin DOMAIN b.page_table
    THEN [b |-> [b EXCEPT !.poisoned = TRUE], d |-> d]
    ELSE LET page == b.frames[b.page_table[page_id]]
         IN  [ b |-> b,
               d |-> IF page.is_dirty THEN write_page(d, page_id, page.data) ELSE d ]

new_page(b, d) ==
    LET a == alloc_frame(b)
        f == a.frame
    IN  IF f = NoFrame
        THEN [b |-> b, d |-> d, ok |-> FALSE, page_id |-> NoPage, wrote |-> NoPage]
        ELSE LET i == alloc_page_id(a.b)
                 victim_page == i.b.frames[f]
                 d1 == evict_write(d, victim_page)
                 pt1 == IF victim_page.page_id # NoPage
                        THEN TableRemove(i.b.page_table, victim_page.page_id)
                        ELSE i.b.page_table
             IN  [ b       |-> [i.b EXCEPT
                                  !.page_table = TableInsert(pt1, i.page_id, f),
                                  !.frames[f]  = [ data      |-> ZeroData,
                                                   page_id   |-> i.page_id,
                                                   is_dirty  |-> TRUE,
                                                   pin_count |-> 1 ],
                                  !.replacer   = pin(@, f)],
                   d       |-> d1,
                   ok      |-> TRUE,
                   page_id |-> i.page_id,
                   wrote   |-> evict_wrote(victim_page) ]

\* a delete that does not look at the pin count
delete_page_unchecked(b, page_id) ==
    IF page_id \notin DOMAIN b.page_table
    THEN b
    ELSE [b EXCEPT
            !.free_list        = Append(@, b.page_table[page_id]),
            !.page_table       = TableRemove(@, page_id),
            !.deleted_page_ids = Append(@, page_id)]

\* what delete_page does to the replacer: nothing (lines 148-150)
delete_replacer(r, frame_id) == r

delete_page(b, page_id) ==
    IF page_id \notin DOMAIN b.page_table
    THEN b
    ELSE LET f == b.page_table[page_id]
         IN  IF b.frames[f].pin_count > 0
             THEN [b EXCEPT !.poisoned = TRUE]
             ELSE [b EXCEPT
                     !.free_list        = Append(@, f),
                     !.replacer         = delete_replacer(@, f),
                     !.page_table       = TableRemove(@, page_id),
                     !.deleted_page_ids = Append(@, page_id)]

RECURSIVE flush_frames(_, _, _)
flush_frames(b, d, f) ==
    IF f >= b.pool_size THEN d
    ELSE LET page == b.frames[f]
         IN  flush_frames(b,
                          IF page.is_dirty THEN write_page(d, page.page_id, page.data) ELSE d,
                          f + 1)

flush_all_pages(b, d) == flush_frames(b, d, 0)

(***************************************************************************)
(* The calls a pool caller makes on instance 0 through the parallel pool   *)
(* (get_instance(pid).lock().unwrap().op(..)): a poisoned mutex panics in  *)
(* the caller and the instance is never entered again.                     *)
(***************************************************************************)
\* op: the call; page_id: its argument (for new_page the id it returned);
\* ok: a handle was returned / the call did not panic; hit: the page was
\* resident when the call was made; wrote: the page id the call wrote back
\* from the frame it took, NoPage if it wrote none
Ret(op, page_id, ok, hit, wrote) ==
    [op |-> op, page_id |-> page_id, ok |-> ok, hit |-> hit, wrote |-> wrote]

\* unpin_page returns nothing; the record keeps the flag it was called with
RetUnpin(page_id, is_dirty) ==
    [ op |-> "unpin_page", page_id |-> page_id, ok |-> TRUE, hit |-> TRUE,
      wrote |-> NoPage, is_dirty |-> is_dirty ]

\* the pool was dropped and constructed again: the pages resident at the drop
RetNew(resident) ==
    [ op |-> "reconstruct", page_id |-> NoPage, ok |-> TRUE, hit |-> FALSE,
      wrote |-> NoPage, resident |-> resident ]

\* no hash table has been built on the pool
NoTable == [status |-> "none"]
NoCall == [op |-> "none"]
NoBucket == [kind |-> "none"]

\* no parallel pool is shared between threads
NoPool == [num_instances |-> 0]
NoThreads == <<>>
\* no replacer is driven directly
NoReplacer == [status |-> "none"]

Init ==
    /\ bpi = BufferPoolManager_new(PoolSize, NumInstances, 0)
    /\ disk = [p \in {} |-> ZeroData]
    /\ ret = Ret("new", NoPage, TRUE, FALSE, NoPage)
    /\ eht = NoTable
    /\ eret = NoCall
    /\ pairs = {}
    /\ pbp = NoPool
    /\ thr = NoThreads
    /\ issued = {}
    /\ lru = NoReplacer
    /\ lret = NoCall
    /\ mutex = 0
    /\ bucket_page = NoBucket

Call_fetch_page ==
    \E page_id \in PageIds :
        /\ ~bpi.poisoned
        /\ page_id \in DOMAIN bpi.page_table
              => bpi.frames[bpi.page_table[page_id]].pin_count < MaxPin
        /\ LET r == fetch_page(bpi, disk, page_id)
           IN  /\ bpi' = r.b
               /\ disk' = r.d
               /\ ret' = Ret("fetch_page", page_id, r.ok, page_id \in DOMAIN bpi.page_table, r.wrote)
               /\ UNCHANGED <<eht, eret, pairs, pbp, thr, issued, lru, lret, mutex, bucket_page>>

Call_new_page ==
    /\ ~bpi.poisoned
    /\ bpi.deleted_page_ids # <<>> \/ bpi.next_page_id \in PageIds
    /\ LET r == new_page(bpi, disk)
       IN  /\ bpi' = r.b
           /\ disk' = r.d
           /\ ret' = Ret("new_page", r.page_id, r.ok, FALSE, r.wrote)
           /\ UNCHANGED <<eht, eret, pairs, pbp, thr, issued, lru, lret, mutex, bucket_page>>

\* the caller unpins a page it has pinned
Call_unpin_page ==
    \E page_id \in PageIds, is_dirty \in BOOLEAN :
        /\ ~bpi.poisoned
        /\ page_id \in DOMAIN bpi.page_table
        /\ bpi.frames[bpi.page_table[page_id]].pin_count > 0
        /\ bpi' = unpin_page(bpi, page_id, is_dirty)
        /\ ret' = RetUnpin(page_id, is_dirty)
        /\ UNCHANGED <<eht, eret, pairs, pbp, thr, issued, lru, lret, mutex, bucket_page>>
        /\ UNCHANGED disk

Call_flush_page ==
    \E page_id \in PageIds :
        /\ ~bpi.poisoned
        /\ LET r == flush_page(bpi, disk, page_id)
           IN  /\ bpi' = r.b
               /\ disk' = r.d
               /\ ret' = Ret("flush_page", page_id, ~r.b.poisoned, page_id \in DOMAIN bpi.page_table, NoPage)
               /\ UNCHANGED <<eht, eret, pairs, pbp, thr, issued, lru, lret, mutex, bucket_page>>

\* delete_page pushes onto free_list and deleted_page_ids without looking at
\* what they hold, so both can grow for ever: the caller stops deleting at
\* MaxDeleted reusable ids and one more free-list entry than there are frames
Call_delete_page ==
    \E page_id \in PageIds :
        /\ ~bpi.poisoned
        /\ Len(bpi.deleted_page_ids) < MaxDeleted
        /\ Len(bpi.free_list) <= bpi.pool_size
        /\ bpi' = delete_page(bpi, page_id)
        /\ ret' = Ret("delete_page", page_id, ~bpi'.poisoned, page_id \in DOMAIN bpi.page_table, NoPage)
        /\ UNCHANGED <<eht, eret, pairs, pbp, thr, issued, lru, lret, mutex, bucket_page>>
        /\ UNCHANGED disk

Call_flush_all_pages ==
    /\ ~bpi.poisoned
    /\ disk' = flush_all_pages(bpi, disk)
    /\ ret' = Ret("flush_all_pages", NoPage, TRUE, FALSE, NoPage)
    /\ UNCHANGED <<eht, eret, pairs, pbp, thr, issued, lru, lret, mutex, bucket_page>>
    /\ UNCHANGED bpi

\* a caller that holds a pin writes the first byte of the payload through
\* its handle (page.write().unwrap().0[0] = byte)
Write_page_data ==
    \E page_id \in PageIds, byte \in 1 .. MaxByte :
        /\ ~bpi.poisoned
        /\ page_id \in DOMAIN bpi.page_table
        /\ bpi.frames[bpi.page_table[page_id]].pin_count > 0
        /\ bpi' = [bpi EXCEPT !.frames[bpi.page_table[page_id]].data = RawData(byte)]
        /\ ret' = Ret("write", page_id, TRUE, TRUE, NoPage)
        /\ UNCHANGED <<eht, eret, pairs, pbp, thr, issued, lru, lret, mutex, bucket_page>>
        /\ UNCHANGED disk

Next ==
    \/ Call_fetch_page
    \/ Call_new_page
    \/ Call_unpin_page
    \/ Call_flush_page
    \/ Call_delete_page
    \/ Call_flush_all_pages
    \/ Write_page_data

Spec == Init /\ [][Next]_vars

(***************************************************************************)
(* A pool that is flushed, dropped and constructed again over the same     *)
(* file (DiskManagerInstance::new opens the file without truncating it).   *)
(***************************************************************************)
\* drop(pool); ParallelBufferPoolManager::new(..) after a flush_all_pages
Reconstruct ==
    /\ ret.op = "flush_all_pages"
    /\ bpi' = BufferPoolManager_new(PoolSize, NumInstances, 0)
    /\ ret' = RetNew(DOMAIN bpi.page_table)
    /\ UNCHANGED <<eht, eret, pairs, pbp, thr, issued, lru, lret, mutex, bucket_page>>
    /\ UNCHANGED disk

NextRestart ==
    \/ Call_new_page
    \/ Write_page_data
    \/ Call_unpin_page
    \/ Call_fetch_page
    \/ Call_flush_all_pages
    \/ Reconstruct

SpecRestart == Init /\ [][NextRestart]_vars

(***************************************************************************)
(* The pool instance with the page ids it has handed out: `issued` holds   *)
(* the ids new_page returned that no delete_page has taken back since.     *)
(***************************************************************************)
Ids_new_page ==
    /\ ~bpi.poisoned
    /\ bpi.deleted_page_ids # <<>> \/ bpi.next_page_id \in PageIds
    /\ \E r \in {new_page(bpi, disk)} :
           /\ bpi' = r.b
           /\ disk' = r.d
           /\ ret' = Ret("new_page", r.page_id, r.ok, FALSE, r.wrote)
           /\ issued' = IF r.ok THEN issued \cup {r.page_id} ELSE issued
           /\ UNCHANGED <<eht, eret, pairs, pbp, thr, lru, lret, mutex, bucket_page>>

Ids_delete_page ==
    \E page_id \in PageIds :
        /\ ~bpi.poisoned
        /\ Len(bpi.deleted_page_ids) < MaxDeletedIds
        /\ Len(bpi.free_list) <= bpi.pool_size
        /\ bpi' = delete_page(bpi, page_id)
        /\ ret' = Ret("delete_page", page_id, ~bpi'.poisoned,
                      page_id \in DOMAIN bpi.page_table, NoPage)
        /\ issued' = IF page_id \in DOMAIN bpi.page_table /\ ~bpi'.poisoned
                      THEN issued \ {page_id}
                      ELSE issued
        /\ UNCHANGED <<disk, eht, eret, pairs, pbp, thr, lru, lret, mutex, bucket_page>>

NextIds ==
    \/ Ids_new_page
    \/ Call_fetch_page
    \/ Call_unpin_page
    \/ Ids_delete_page

SpecIds == Init /\ [][NextIds]_vars

(***************************************************************************)
(* The pool instance with a caller that also unpins a page nobody holds.   *)
(***************************************************************************)
\* unpin_page on a resident page whose pin_count is 0: decrease_pin_count
\* (page.rs:76-78) is `pin_count -= 1` on a usize, which panics under the
\* mutex where overflow is checked and wraps where it is not; the wrapped
\* count is kept as the negative number with the same bits
Call_unpin_page_unpinned ==
    \E page_id \in PageIds, is_dirty \in BOOLEAN, build \in {"debug", "release"} :
        /\ ~bpi.poisoned
        /\ page_id \in DOMAIN bpi.page_table
        /\ bpi.frames[bpi.page_table[page_id]].pin_count = 0
        /\ bpi' = IF build = "debug"
                  THEN [bpi EXCEPT !.poisoned = TRUE]
                  ELSE unpin_page(bpi, page_id, is_dirty)
        /\ ret' = RetUnpin(page_id, is_dirty)
        /\ UNCHANGED <<eht, eret, pairs, pbp, thr, issued, lru, lret, mutex, bucket_page>>
        /\ UNCHANGED disk

NextPins ==
    \/ Call_fetch_page
    \/ Call_new_page
    \/ Call_unpin_page
    \/ Call_unpin_page_unpinned
    \/ Call_delete_page

SpecPins == Init /\ [][NextPins]_vars

(***************************************************************************)
(* Hash table pages (storage/pages).  A payload the table has written is    *)
(* kept as the struct it was cast to; the all-zero payload casts to the     *)
(* all-zero struct.                                                         *)
(***************************************************************************)
DIRECTORY_ARRAY_SIZE == 512

Slots == 0 .. (DIRECTORY_ARRAY_SIZE - 1)

Pow2(n) == 2 ^ n

\* cast_ref / cast_mut of a page payload to HashTableDirectoryPage
AsDir(data) ==
    CASE data.kind = "dir"  -> data
      [] data.kind = "zero" -> [ kind         |-> "dir",
                                 page_id      |-> 0,
                                 global_depth |-> 0,
                                 local_depth  |-> [i \in Slots |-> 0],
                                 page_ids     |-> [i \in Slots |-> 0] ]

\* cast_ref / cast_mut of a page payload to HashTableBucketPage<K, V>;
\* slot i of the source is index i + 1 here
AsBucket(data, kv_num) ==
    CASE data.kind = "bucket" -> data
      [] data.kind = "zero"   -> [ kind     |-> "bucket",
                                   readable |-> [i \in 1 .. kv_num |-> FALSE],
                                   kvs      |-> [i \in 1 .. kv_num |-> <<0, 0>>] ]

\* HashTableBucketPage::get_value: the values under key, in slot order
bucket_get_value(bucket, key) ==
    LET hits == SelectSeq([i \in 1 .. Len(bucket.kvs) |-> i],
                          LAMBDA i : bucket.readable[i] /\ bucket.kvs[i][1] = key)
    IN  [j \in 1 .. Len(hits) |-> bucket.kvs[hits[j]][2]]

\* an insert that looks for room before it looks for the pair
bucket_insert_full_first(bucket, key, value) ==
    LET n == Len(bucket.kvs)
    IN  IF \A i \in 1 .. n : bucket.readable[i]
        THEN [bucket |-> bucket, result |-> "Full"]
        ELSE IF \E i \in 1 .. n : bucket.readable[i] /\ bucket.kvs[i] = <<key, value>>
        THEN [bucket |-> bucket, result |-> "Duplicate"]
        ELSE LET first_empty_index ==
                     CHOOSE i \in 1 .. n :
                         /\ ~bucket.readable[i]
                         /\ \A j \in 1 .. (i - 1) : bucket.readable[j]
             IN  [ bucket |-> [bucket EXCEPT !.kvs[first_empty_index] = <<key, value>>,
                                             !.readable[first_empty_index] = TRUE],
                   result |-> "Success" ]

\* HashTableBucketPage::insert
bucket_insert(bucket, key, value) ==
    LET n == Len(bucket.kvs)
    IN  IF \E i \in 1 .. n : bucket.readable[i] /\ bucket.kvs[i] = <<key, value>>
        THEN [bucket |-> bucket, result |-> "Duplicate"]
        ELSE IF \A i \in 1 .. n : bucket.readable[i]
        THEN [bucket |-> bucket, result |-> "Full"]
        ELSE LET first_empty_index ==
                     CHOOSE i \in 1 .. n :
                         /\ ~bucket.readable[i]
                         /\ \A j \in 1 .. (i - 1) : bucket.readable[j]
             IN  [ bucket |-> [bucket EXCEPT !.kvs[first_empty_index] = <<key, value>>,
                                             !.readable[first_empty_index] = TRUE],
                   result |-> "Success" ]

\* HashTableBucketPage::remove: the first readable slot that holds the pair
bucket_remove(bucket, key, value) ==
    LET n == Len(bucket.kvs)
        found == {i \in 1 .. n : bucket.readable[i] /\ bucket.kvs[i] = <<key, value>>}
    IN  IF found = {}
        THEN [bucket |-> bucket, result |-> FALSE]
        ELSE LET i == CHOOSE x \in found : \A y \in found : x <= y
             IN  [bucket |-> [bucket EXCEPT !.readable[i] = FALSE], result |-> TRUE]

(***************************************************************************)
(* ParallelBufferPoolManager as the hash table uses it.  Every page id the *)
(* table allocates comes from new_page with the seed PageId(0), so every   *)
(* call lands on instances[0]; `s` carries that instance, the disk, and    *)
(* what has become of the calling thread.                                  *)
(***************************************************************************)
get_instance(page_id) == page_id % NumInstances

\* `let x = v; ..`: v is computed once and the rest of the body sees its value
Bind(v, F(_)) == CHOOSE y \in {F(x) : x \in {v}} : TRUE

\* the payload behind the handle of a pinned page
page_data(b, page_id) == b.frames[b.page_table[page_id]].data

write_data(s, page_id, data) ==
    [s EXCEPT !.b.frames[s.b.page_table[page_id]].data = data]

\* new_page_blocking: retries until new_page returns a page; with one
\* thread nothing changes between retries
new_page_blocking(s) ==
    IF s.status # "ok" THEN [s |-> s, page_id |-> NoPage]
    ELSE Bind(new_page(s.b, s.d), LAMBDA r :
            IF r.ok
            THEN [s |-> [s EXCEPT !.b = r.b, !.d = r.d], page_id |-> r.page_id]
            ELSE [s |-> [s EXCEPT !.status = "spin_new_page"], page_id |-> NoPage])

\* an unpin_page that passes is_dirty = false whatever the caller says
pbp_unpin_page_clean(s, page_id, is_dirty) ==
    IF s.status # "ok" THEN s
    ELSE Bind(unpin_page(s.b, page_id, FALSE), LAMBDA b1 :
            [s EXCEPT !.b = b1,
                      !.status = IF b1.poisoned THEN "panic_unpin" ELSE @])

pbp_unpin_page(s, page_id, is_dirty) ==
    IF s.status # "ok" THEN s
    ELSE Bind(unpin_page(s.b, page_id, is_dirty), LAMBDA b1 :
            [s EXCEPT !.b = b1,
                      !.status = IF b1.poisoned THEN "panic_unpin" ELSE @])

(***************************************************************************)
(* ExtendibleHashTable (container/extendible_hash_table.rs).               *)
(***************************************************************************)
Keys == 0 .. MaxKey

Values == 0 .. MaxValue

\* the hashers a caller may build the table with: hash(key) for each key
HashFns == { [k \in Keys |-> k], [k \in Keys |-> 2 * k + 1] }

\* KV_NUM of the pair types a caller may build the table with
KvNums == {0, MaxKvNum}

\* what read() does on an RwLock the calling thread holds for writing: it
\* blocks for ever, or it panics
RelockOutcomes == {"deadlock", "panic_relock"}

hash(e, key) == e.hash_fn[key]

\* pid_to_page_data: retries fetch_page until it returns a page
pid_to_page_data(s, page_id) ==
    IF s.status # "ok" THEN s
    ELSE Bind(fetch_page(s.b, s.d, page_id), LAMBDA r :
            IF r.ok
            THEN [s EXCEPT !.b = r.b, !.d = r.d]
            ELSE [s EXCEPT !.status = "spin_fetch_page"])

\* hash(key) & ((1 << global_depth) - 1)
key_to_index(e, key, dir) == hash(e, key) % Pow2(dir.global_depth)

get_context(e, s, key) ==
    Bind(pid_to_page_data(s, e.dir_page_id), LAMBDA s1 :
      IF s1.status # "ok"
      THEN [s |-> s1, bucket_index |-> 0, bucket_pid |-> NoPage, local_depth |-> 0]
      ELSE Bind(AsDir(page_data(s1.b, e.dir_page_id)), LAMBDA dir :
           Bind(key_to_index(e, key, dir), LAMBDA bucket_index :
             [ s            |-> pid_to_page_data(s1, dir.page_ids[bucket_index]),
               bucket_index |-> bucket_index,
               bucket_pid   |-> dir.page_ids[bucket_index],
               local_depth  |-> dir.local_depth[bucket_index] ])))

\* the pool the table is built on, and the thread that builds it
NewThread ==
    [ b      |-> BufferPoolManager_new(EhtPoolSize, NumInstances, get_instance(0)),
      d      |-> [p \in {} |-> ZeroData],
      status |-> "ok",
      relock |-> "deadlock",
      splits |-> 0 ]

ExtendibleHashTable_new(hash_fn, kv_num) ==
    Bind(new_page_blocking(NewThread), LAMBDA nd :
    Bind([AsDir(page_data(nd.s.b, nd.page_id)) EXCEPT !.page_id = nd.page_id], LAMBDA dir0 :
    Bind(write_data(nd.s, nd.page_id, dir0), LAMBDA s0 :
    Bind(new_page_blocking(s0), LAMBDA nb :
    Bind([dir0 EXCEPT !.page_ids[0] = nb.page_id, !.local_depth[0] = 0], LAMBDA dir1 :
    Bind(write_data(nb.s, nd.page_id, dir1), LAMBDA s1 :
    Bind(pbp_unpin_page(s1, nd.page_id, TRUE), LAMBDA s2 :
      [ s   |-> pbp_unpin_page(s2, nb.page_id, FALSE),
        eht |-> [ dir_page_id |-> nd.page_id,
                  hash_fn     |-> hash_fn,
                  kv_num      |-> kv_num,
                  status      |-> "ok" ] ])))))))

eht_get_value(e, s, key) ==
    Bind(get_context(e, s, key), LAMBDA c :
      IF c.s.status # "ok"
      THEN [s |-> c.s, result |-> <<>>]
      ELSE Bind(AsBucket(page_data(c.s.b, c.bucket_pid), e.kv_num), LAMBDA bucket :
           Bind(pbp_unpin_page(c.s, e.dir_page_id, FALSE), LAMBDA s1 :
             [ s      |-> pbp_unpin_page(s1, c.bucket_pid, FALSE),
               result |-> bucket_get_value(bucket, key) ])))

eht_remove(e, s, key, value) ==
    Bind(get_context(e, s, key), LAMBDA c :
      IF c.s.status # "ok"
      THEN [s |-> c.s, result |-> FALSE]
      ELSE Bind(AsBucket(page_data(c.s.b, c.bucket_pid), e.kv_num), LAMBDA bucket :
           Bind(bucket_remove(bucket, key, value), LAMBDA r :
             IF r.result
             THEN Bind(write_data(c.s, c.bucket_pid, r.bucket), LAMBDA s0 :
                  Bind(pbp_unpin_page(s0, e.dir_page_id, FALSE), LAMBDA s1 :
                    [s |-> pbp_unpin_page(s1, c.bucket_pid, TRUE), result |-> TRUE]))
             ELSE Bind(pbp_unpin_page(c.s, e.dir_page_id, FALSE), LAMBDA s1 :
                    [s |-> pbp_unpin_page(s1, c.bucket_pid, FALSE), result |-> FALSE]))))

\* a get_global_depth that reports one level too many
get_global_depth_plus_one(e, s) ==
    Bind(pid_to_page_data(s, e.dir_page_id), LAMBDA s1 :
      IF s1.status # "ok"
      THEN [s |-> s1, global_depth |-> 0]
      ELSE [ s            |-> pbp_unpin_page(s1, e.dir_page_id, FALSE),
             global_depth |-> AsDir(page_data(s1.b, e.dir_page_id)).global_depth + 1 ])

get_global_depth(e, s) ==
    Bind(pid_to_page_data(s, e.dir_page_id), LAMBDA s1 :
      IF s1.status # "ok"
      THEN [s |-> s1, global_depth |-> 0]
      ELSE [ s            |-> pbp_unpin_page(s1, e.dir_page_id, FALSE),
             global_depth |-> AsDir(page_data(s1.b, e.dir_page_id)).global_depth ])

\* the loop `for i in 0..KV_NUM` of both splits: its first step calls
\* key_to_index(key, context.dir_data.clone()), which takes the read lock of
\* the directory payload while this thread holds its write guard
redistribute(s, kv_num) ==
    IF kv_num = 0 \/ s.status # "ok" THEN s
    ELSE [s EXCEPT !.status = s.relock]

\* the three unpin_page calls that end a split
split_unpin(e, s, bucket_pid, new_page_id) ==
    Bind(pbp_unpin_page(s, e.dir_page_id, TRUE), LAMBDA s1 :
    Bind(pbp_unpin_page(s1, bucket_pid, TRUE), LAMBDA s2 :
      pbp_unpin_page(s2, new_page_id, TRUE)))

\* the loop of lines 191-194: slots of the upper half take the lower half's
copy_lower_half(array, num_buckets_before) ==
    [i \in Slots |->
        IF i >= num_buckets_before /\ i < 2 * num_buckets_before
        THEN array[i - num_buckets_before]
        ELSE array[i]]

bucket_split_dir_double(e, s, key, value, context) ==
    Bind(AsDir(page_data(s.b, e.dir_page_id)), LAMBDA dir0 :
    Bind([dir0 EXCEPT !.global_depth = @ + 1,
                      !.local_depth[context.bucket_index] = @ + 1], LAMBDA dir1 :
    Bind(Pow2(dir1.global_depth) \div 2, LAMBDA num_buckets_before :
      IF num_buckets_before + num_buckets_before > DIRECTORY_ARRAY_SIZE
      THEN \* set_bucket_page_id(num_buckets_before + 0, ..) indexes past the array
           [write_data(s, e.dir_page_id, dir1) EXCEPT !.status = "panic_index"]
      ELSE Bind([dir1 EXCEPT
                   !.page_ids = copy_lower_half(dir1.page_ids, num_buckets_before),
                   !.local_depth = copy_lower_half(dir1.local_depth, num_buckets_before)],
                LAMBDA dir2 :
           Bind(write_data(s, e.dir_page_id, dir2), LAMBDA s1 :
           Bind(new_page_blocking(s1), LAMBDA n :
             IF n.s.status # "ok" THEN n.s
             ELSE Bind([dir2 EXCEPT
                          !.page_ids[context.bucket_index + num_buckets_before] = n.page_id,
                          !.local_depth[context.bucket_index + num_buckets_before] =
                              context.local_depth], LAMBDA dir3 :
                  Bind(write_data(n.s, e.dir_page_id, dir3), LAMBDA s2 :
                  Bind(redistribute(s2, e.kv_num), LAMBDA s3 :
                    split_unpin(e, s3, context.bucket_pid, n.page_id))))))))))

\* (start..num_buckets).step_by(cycle)
stepped(start, num_buckets, cycle) ==
    {i \in start .. (num_buckets - 1) : (i - start) % cycle = 0}

bucket_split_dir_same(e, s, key, value, context) ==
    Bind(Pow2(context.local_depth), LAMBDA cycle :
    Bind(AsDir(page_data(s.b, e.dir_page_id)), LAMBDA dir0 :
    Bind([dir0 EXCEPT !.local_depth[context.bucket_index] = @ + 1], LAMBDA dir1 :
    Bind(Pow2(dir1.global_depth) \div 2, LAMBDA num_buckets :
    Bind((num_buckets \div 2) + (context.bucket_index % cycle), LAMBDA start :
    Bind(write_data(s, e.dir_page_id, dir1), LAMBDA s1 :
    Bind(new_page_blocking(s1), LAMBDA n :
      IF n.s.status # "ok" THEN n.s
      ELSE Bind(stepped(start, num_buckets, cycle), LAMBDA targets :
           Bind([dir1 EXCEPT
                   !.page_ids = [i \in Slots |->
                       IF i \in targets THEN n.page_id ELSE dir1.page_ids[i]],
                   !.local_depth = [i \in Slots |->
                       IF i \in targets THEN context.local_depth + 1
                       ELSE dir1.local_depth[i]]], LAMBDA dir2 :
           Bind(write_data(n.s, e.dir_page_id, dir2), LAMBDA s2 :
           Bind(redistribute(s2, e.kv_num), LAMBDA s3 :
             split_unpin(e, s3, context.bucket_pid, n.page_id))))))))))))

bucket_split(e, s, key, value, context) ==
    Bind([s EXCEPT !.splits = @ + 1], LAMBDA s0 :
    Bind(get_global_depth(e, s0), LAMBDA g :
      IF g.s.status # "ok" THEN g.s
      ELSE IF context.local_depth = g.global_depth % 256
      THEN bucket_split_dir_double(e, g.s, key, value, context)
      ELSE bucket_split_dir_same(e, g.s, key, value, context)))

RECURSIVE eht_insert(_, _, _, _)
eht_insert(e, s, key, value) ==
    Bind(get_context(e, s, key), LAMBDA c :
      IF c.s.status # "ok"
      THEN [s |-> c.s, result |-> FALSE]
      ELSE Bind(AsBucket(page_data(c.s.b, c.bucket_pid), e.kv_num), LAMBDA bucket :
           Bind(bucket_insert(bucket, key, value), LAMBDA r :
             CASE r.result = "Success" ->
                    Bind(write_data(c.s, c.bucket_pid, r.bucket), LAMBDA s0 :
                    Bind(pbp_unpin_page(s0, e.dir_page_id, FALSE), LAMBDA s1 :
                      [s |-> pbp_unpin_page(s1, c.bucket_pid, TRUE), result |-> TRUE]))
               [] r.result = "Duplicate" ->
                    Bind(pbp_unpin_page(c.s, e.dir_page_id, FALSE), LAMBDA s1 :
                      [s |-> pbp_unpin_page(s1, c.bucket_pid, FALSE), result |-> FALSE])
               [] r.result = "Full" ->
                    Bind(bucket_split(e, c.s, key, value, c), LAMBDA s1 :
                      IF s1.status # "ok"
                      THEN [s |-> s1, result |-> FALSE]
                      ELSE eht_insert(e, s1, key, value)))))

(***************************************************************************)
(* The calls of the one thread that owns the table (insert and remove take *)
(* &mut self).  A call that blocks or panics ends the thread; the pool is  *)
(* left as the call left it.                                               *)
(***************************************************************************)
\* the state a call starts from
Thread(relock) ==
    [b |-> bpi, d |-> disk, status |-> "ok", relock |-> relock, splits |-> 0]

\* op, key, value: the call; returned: it came back; result: what insert or
\* remove returned; values: what get_value returned; present: the pair was
\* in `pairs` when the call was made; expected: the values `pairs` held
\* under the key then; splits: the bucket splits the call started
ERet(op, key, value, r, present, expected) ==
    [ op       |-> op,
      key      |-> key,
      value    |-> value,
      returned |-> r.s.status = "ok",
      result   |-> IF op = "get_value" THEN FALSE ELSE r.result,
      values   |-> IF op = "get_value" THEN r.result ELSE <<>>,
      present  |-> present,
      expected |-> expected,
      splits   |-> r.s.splits ]

ValuesOf(key) == {p[2] : p \in {q \in pairs : q[1] = key}}

InitEHT ==
    \E hash_fn \in HashFns, kv_num \in KvNums :
        \E t \in {ExtendibleHashTable_new(hash_fn, kv_num)} :
            /\ bpi = t.s.b
            /\ disk = t.s.d
            /\ eht = t.eht
            /\ eret = ERet("new", 0, 0, [s |-> t.s, result |-> TRUE], FALSE, {})
            /\ pairs = {}
            /\ ret = Ret("new", NoPage, TRUE, FALSE, NoPage)
            /\ pbp = NoPool
            /\ thr = NoThreads
            /\ issued = {}
            /\ lru = NoReplacer
            /\ lret = NoCall
            /\ mutex = 0
            /\ bucket_page = NoBucket

Call_insert ==
    \E key \in Keys, value \in Values, relock \in RelockOutcomes :
        /\ eht.status = "ok"
        /\ \E r \in {eht_insert(eht, Thread(relock), key, value)} :
               /\ bpi' = r.s.b
               /\ disk' = r.s.d
               /\ eht' = [eht EXCEPT !.status = r.s.status]
               /\ eret' = ERet("insert", key, value, r,
                               <<key, value>> \in pairs, ValuesOf(key))
               /\ pairs' = IF r.s.status = "ok" /\ r.result
                           THEN pairs \cup {<<key, value>>}
                           ELSE pairs
               /\ UNCHANGED <<ret, pbp, thr, issued, lru, lret, mutex, bucket_page>>

Call_remove ==
    \E key \in Keys, value \in Values :
        /\ eht.status = "ok"
        /\ \E r \in {eht_remove(eht, Thread("deadlock"), key, value)} :
               /\ bpi' = r.s.b
               /\ disk' = r.s.d
               /\ eht' = [eht EXCEPT !.status = r.s.status]
               /\ eret' = ERet("remove", key, value, r,
                               <<key, value>> \in pairs, ValuesOf(key))
               /\ pairs' = IF r.s.status = "ok" /\ r.result
                           THEN pairs \ {<<key, value>>}
                           ELSE pairs
               /\ UNCHANGED <<ret, pbp, thr, issued, lru, lret, mutex, bucket_page>>

Call_get_value ==
    \E key \in Keys :
        /\ eht.status = "ok"
        /\ \E r \in {eht_get_value(eht, Thread("deadlock"), key)} :
               /\ bpi' = r.s.b
               /\ disk' = r.s.d
               /\ eht' = [eht EXCEPT !.status = r.s.status]
               /\ eret' = ERet("get_value", key, 0, r, FALSE, ValuesOf(key))
               /\ UNCHANGED <<pairs, ret, pbp, thr, issued, lru, lret, mutex, bucket_page>>

NextEHT ==
    \/ Call_insert
    \/ Call_remove
    \/ Call_get_value

SpecEHT == InitEHT /\ [][NextEHT]_vars

(***************************************************************************)
(* insert, one activation at a time: insert calls itself after             *)
(* bucket_split (line 139), and each activation starts from the pool as    *)
(* the split left it.                                                      *)
(***************************************************************************)
\* one activation of insert: lines 120-141 up to the recursive call
insert_level(e, s, key, value) ==
    Bind(get_context(e, s, key), LAMBDA c :
      IF c.s.status # "ok"
      THEN [s |-> c.s, result |-> "None", context |-> c]
      ELSE Bind(AsBucket(page_data(c.s.b, c.bucket_pid), e.kv_num), LAMBDA bucket :
           Bind(bucket_insert(bucket, key, value), LAMBDA r :
             CASE r.result = "Success" ->
                    Bind(write_data(c.s, c.bucket_pid, r.bucket), LAMBDA s0 :
                    Bind(pbp_unpin_page(s0, e.dir_page_id, FALSE), LAMBDA s1 :
                      [ s       |-> pbp_unpin_page(s1, c.bucket_pid, TRUE),
                        result  |-> "Success",
                        context |-> c ]))
               [] r.result = "Duplicate" ->
                    Bind(pbp_unpin_page(c.s, e.dir_page_id, FALSE), LAMBDA s1 :
                      [ s       |-> pbp_unpin_page(s1, c.bucket_pid, FALSE),
                        result  |-> "Duplicate",
                        context |-> c ])
               [] r.result = "Full" ->
                    [ s       |-> bucket_split(e, c.s, key, value, c),
                      result  |-> "Full",
                      context |-> c ])))

\* op, key, value: the activation; result: what bucket.insert returned;
\* returned: the activation came to its end; bucket_index, bucket_pid,
\* local_depth: the context it worked on; present, expected: as for a call
ELevel(key, value, l, present, expected) ==
    [ op           |-> "insert_level",
      key          |-> key,
      value        |-> value,
      returned     |-> l.s.status = "ok",
      result       |-> l.result,
      bucket_index |-> l.context.bucket_index,
      bucket_pid   |-> l.context.bucket_pid,
      local_depth  |-> l.context.local_depth,
      present      |-> present,
      expected     |-> expected ]

\* the last activation split its bucket and insert is about to call itself
InsertPending == eret.op = "insert_level" /\ eret.result = "Full"

Insert_level ==
    \E key \in Keys, value \in Values, relock \in RelockOutcomes :
        /\ eht.status = "ok"
        /\ InsertPending => (key = eret.key /\ value = eret.value)
        /\ \E l \in {insert_level(eht, Thread(relock), key, value)} :
               /\ bpi' = l.s.b
               /\ disk' = l.s.d
               /\ eht' = [eht EXCEPT !.status = l.s.status]
               /\ eret' = ELevel(key, value, l, <<key, value>> \in pairs, ValuesOf(key))
               /\ pairs' = IF l.s.status = "ok" /\ l.result = "Success"
                           THEN pairs \cup {<<key, value>>}
                           ELSE pairs
               /\ UNCHANGED <<ret, pbp, thr, issued, lru, lret, mutex, bucket_page>>

Remove_between ==
    /\ ~InsertPending
    /\ Call_remove

Get_value_between ==
    /\ ~InsertPending
    /\ Call_get_value

NextLevels ==
    \/ Insert_level
    \/ Remove_between
    \/ Get_value_between

SpecLevels == InitEHT /\ [][NextLevels]_vars

(***************************************************************************)
(* The hash table on a pool it shares: the table borrows the pool          *)
(* (bpm: &ParallelBufferPoolManager), so another holder's pages compete    *)
(* with the directory and the buckets for the frames.                      *)
(***************************************************************************)
\* the other holder's new_page_blocking / unpin_page, n times over
RECURSIVE other_new_pages(_, _)
other_new_pages(s, n) ==
    IF n = 0 THEN s
    ELSE Bind(new_page_blocking(s), LAMBDA r :
           other_new_pages(pbp_unpin_page(r.s, r.page_id, FALSE), n - 1))

InitEvict ==
    \E hash_fn \in HashFns, kv_num \in KvNums :
        \E t \in {ExtendibleHashTable_new(hash_fn, kv_num)} :
            \E s \in {other_new_pages(t.s, MaxOtherPages)} :
                /\ bpi = s.b
                /\ disk = s.d
                /\ eht = t.eht
                /\ eret = ERet("new", 0, 0, [s |-> s, result |-> TRUE], FALSE, {})
                /\ pairs = {}
                /\ ret = Ret("new", NoPage, TRUE, FALSE, NoPage)
                /\ pbp = NoPool
                /\ thr = NoThreads
                /\ issued = {}
                /\ lru = NoReplacer
                /\ lret = NoCall
                /\ mutex = 0
                /\ bucket_page = NoBucket

\* the other holder's fetch_page / unpin_page of the first n of its pages
RECURSIVE other_scan(_, _, _)
other_scan(s, n, is_dirty) ==
    IF n = 0 THEN s
    ELSE Bind(other_scan(s, n - 1, is_dirty), LAMBDA s1 :
         Bind(get_instance(0) + NumInstances * (1 + n), LAMBDA page_id :
           pbp_unpin_page(pid_to_page_data(s1, page_id), page_id, is_dirty)))

\* the other holder goes through its pages, fetching and unpinning each
Other_scan ==
    \E is_dirty \in BOOLEAN :
        \E s \in {other_scan(Thread("deadlock"), MaxOtherPages, is_dirty)} :
            /\ s.status = "ok"
            /\ bpi' = s.b
            /\ disk' = s.d
            /\ UNCHANGED <<eht, eret, pairs, ret>>
            /\ UNCHANGED <<pbp, thr, issued, lru, lret, mutex, bucket_page>>

\* the scan has pushed the directory page out of the pool
DirectoryEvicted == eht.dir_page_id \notin DOMAIN bpi.page_table

\* the table's calls that find the directory page gone and fetch it again
Insert_evicted == DirectoryEvicted /\ Call_insert

Remove_evicted == DirectoryEvicted /\ Call_remove

Get_value_evicted == DirectoryEvicted /\ Call_get_value

NextEvict ==
    \/ Insert_evicted
    \/ Remove_evicted
    \/ Get_value_evicted
    \/ Other_scan

SpecEvict == InitEvict /\ [][NextEvict]_vars

(***************************************************************************)
(* A bucket page driven directly (storage/pages/hash_table_bucket_page.rs): *)
(* the page starts as HashTableBucketPage::new() leaves it and its callers  *)
(* insert and remove pairs.                                                 *)
(***************************************************************************)
\* op, key, value: the call; result: what it returned
BRet(op, key, value, result) ==
    [op |-> op, key |-> key, value |-> value, result |-> result]

InitBucket ==
    \E kv_num \in 0 .. MaxSlots :
        /\ bucket_page = AsBucket(ZeroData, kv_num)
        /\ eret = BRet("new", 0, 0, "None")
        /\ bpi = BufferPoolManager_new(PoolSize, NumInstances, 0)
        /\ disk = [p \in {} |-> ZeroData]
        /\ ret = Ret("new", NoPage, TRUE, FALSE, NoPage)
        /\ eht = NoTable
        /\ pairs = {}
        /\ pbp = NoPool
        /\ thr = NoThreads
        /\ issued = {}
        /\ lru = NoReplacer
        /\ lret = NoCall
        /\ mutex = 0

Bucket_insert ==
    \E key \in Keys, value \in Values :
        \E r \in {bucket_insert(bucket_page, key, value)} :
            /\ bucket_page' = r.bucket
            /\ eret' = BRet("bucket_insert", key, value, r.result)
            /\ UNCHANGED <<bpi, disk, ret, eht, pairs, pbp, thr, issued, lru, lret, mutex>>

Bucket_remove ==
    \E key \in Keys, value \in Values :
        \E r \in {bucket_remove(bucket_page, key, value)} :
            /\ bucket_page' = r.bucket
            /\ eret' = BRet("bucket_remove", key, value, r.result)
            /\ UNCHANGED <<bpi, disk, ret, eht, pairs, pbp, thr, issued, lru, lret, mutex>>

NextBucket ==
    \/ Bucket_insert
    \/ Bucket_remove

SpecBucket == InitBucket /\ [][NextBucket]_vars

(***************************************************************************)
(* ParallelBufferPoolManager shared by several threads                     *)
(* (buffer/buffer_pool_manager.rs, lines 164-255).  A call that goes       *)
(* through lock() waits for the instance's mutex and runs under it in one  *)
(* step; new_page_run keeps the mutex it took with try_lock() while the    *)
(* caller's closure runs.                                                  *)
(***************************************************************************)
Threads == 1 .. NumThreads

\* the seed page ids a thread may pass to new_page (the test passes its tid)
Seeds == 0 .. (NumThreads - 1)

\* overflow checks on (debug) or off (release)
Builds == {"debug", "release"}

ParallelBufferPoolManager_new(num_instances, pool_size) ==
    [ num_instances |-> num_instances,
      pool_size     |-> pool_size,
      instances     |-> [i \in 1 .. pool_size |->
                            BufferPoolManager_new(pool_size, num_instances, i - 1)],
      \* the Mutex around each instance: the thread that holds it, 0 if none
      lock          |-> [i \in 1 .. pool_size |-> 0],
      start_index   |-> 0 ]

\* a get_instance that takes the page id modulo the length of the list
routed_by_pool_size(p, page_id) == page_id % p.pool_size

\* get_instance: the position page_id routes to (instances[page_id % num_instances])
routed(p, page_id) == page_id % p.num_instances

\* pc: where the thread is; page_id: the page it holds pinned; start, pos,
\* instance: the split point, the enumerate() index and the instance of the
\* new_page_run it is in
IdleThread ==
    [pc |-> "idle", page_id |-> NoPage, start |-> 0, pos |-> 0, instance |-> 0]

\* one call that has returned: which call, whether it returned a handle, the
\* page id it wrote to its argument, the instance that served it (for
\* new_page_run that found none: the number of instances it tried), and how
\* many calls have returned just that before
Issue(op, ok, page_id, instance) ==
    [ op |-> op, ok |-> ok, page_id |-> page_id, instance |-> instance,
      nth |-> 1 + Cardinality({i \in issued : /\ i.op = op
                                              /\ i.ok = ok
                                              /\ i.page_id = page_id
                                              /\ i.instance = instance}) ]

InitPBP ==
    \E pool_size \in 1 .. MaxPbpPoolSize :
        /\ pbp = ParallelBufferPoolManager_new(NumInstances, pool_size)
        /\ thr = [t \in Threads |-> IdleThread]
        /\ issued = {}
        /\ lru = NoReplacer
        /\ lret = NoCall
        /\ mutex = 0
        /\ bucket_page = NoBucket
        /\ disk = [p \in {} |-> ZeroData]
        /\ bpi = BufferPoolManager_new(PoolSize, NumInstances, 0)
        /\ ret = Ret("new", NoPage, TRUE, FALSE, NoPage)
        /\ eht = NoTable
        /\ eret = NoCall
        /\ pairs = {}

\* ParallelBufferPoolManager::new_page(&mut PageId(seed))
Pbp_new_page ==
    \E t \in Threads, seed \in Seeds :
        /\ thr[t].pc = "idle"
        /\ Cardinality(issued) < MaxCalls
        /\ \E k \in {routed(pbp, seed)} :
              IF k >= Len(pbp.instances)
              THEN \* instances[k] is out of bounds
                   /\ thr' = [thr EXCEPT ![t].pc = "panic_index"]
                   /\ UNCHANGED <<pbp, disk, issued>>
              ELSE /\ pbp.lock[k + 1] = 0
                   /\ IF pbp.instances[k + 1].poisoned
                      THEN /\ thr' = [thr EXCEPT ![t].pc = "panic_poisoned"]
                           /\ UNCHANGED <<pbp, disk, issued>>
                      ELSE \E r \in {new_page(pbp.instances[k + 1], disk)} :
                             /\ pbp' = [pbp EXCEPT !.instances[k + 1] = r.b]
                             /\ disk' = r.d
                             /\ thr' = [thr EXCEPT
                                   ![t].pc = IF r.ok THEN "holding" ELSE "idle",
                                   ![t].page_id = r.page_id]
                             /\ issued' = issued \cup {Issue("new_page", r.ok, r.page_id, k)}
        /\ UNCHANGED <<bpi, ret, eht, eret, pairs, lru, lret, mutex, bucket_page>>

\* new_page_run, line 212: instances.split_at(start_index.load(..)) panics
\* when the index is past the end of the list
Run_load ==
    \E t \in Threads :
        /\ thr[t].pc = "idle"
        /\ Cardinality(issued) < MaxCalls
        /\ thr' = IF pbp.start_index > Len(pbp.instances)
                  THEN [thr EXCEPT ![t].pc = "panic_split_at"]
                  ELSE [thr EXCEPT ![t].pc = "run_add", ![t].start = pbp.start_index]
        /\ UNCHANGED <<pbp, disk, issued, bpi, ret, eht, eret, pairs, lru, lret, mutex, bucket_page>>

\* line 214: start_index.fetch_add(1, ..)
Run_fetch_add ==
    \E t \in Threads :
        /\ thr[t].pc = "run_add"
        /\ pbp' = [pbp EXCEPT !.start_index = @ + 1]
        /\ thr' = [thr EXCEPT ![t].pc = "run_try"]
        /\ UNCHANGED <<disk, issued, bpi, ret, eht, eret, pairs, lru, lret, mutex, bucket_page>>

\* one turn of the loop of lines 215-225 over right.iter().chain(left), or
\* the `None` after it
Run_try ==
    \E t \in Threads :
        /\ thr[t].pc = "run_try"
        /\ IF thr[t].pos >= Len(pbp.instances)
           THEN /\ thr' = [thr EXCEPT ![t] = IdleThread]
                /\ issued' = issued \cup {Issue("new_page_run", FALSE, NoPage, thr[t].pos)}
                /\ UNCHANGED <<pbp, disk>>
           ELSE \E k \in {(thr[t].start + thr[t].pos) % Len(pbp.instances)} :
                  IF pbp.lock[k + 1] # 0 \/ pbp.instances[k + 1].poisoned
                  THEN \* try_lock() is Err
                       /\ thr' = [thr EXCEPT ![t].pos = @ + 1]
                       /\ UNCHANGED <<pbp, disk, issued>>
                  ELSE \E r \in {new_page(pbp.instances[k + 1], disk)} :
                         IF r.ok
                         THEN /\ pbp' = [pbp EXCEPT !.instances[k + 1] = r.b,
                                                    !.lock[k + 1] = t,
                                                    !.start_index = thr[t].pos]
                              /\ disk' = r.d
                              /\ thr' = [thr EXCEPT ![t].pc = "run_f",
                                                    ![t].page_id = r.page_id,
                                                    ![t].instance = k]
                              /\ UNCHANGED issued
                         ELSE /\ thr' = [thr EXCEPT ![t].pos = @ + 1]
                              /\ UNCHANGED <<pbp, disk, issued>>
        /\ UNCHANGED <<bpi, ret, eht, eret, pairs, lru, lret, mutex, bucket_page>>

\* `return Some(f(page))`: the closure has run, the guard is dropped
Run_return ==
    \E t \in Threads :
        /\ thr[t].pc = "run_f"
        /\ pbp' = [pbp EXCEPT !.lock[thr[t].instance + 1] = 0]
        /\ thr' = [thr EXCEPT ![t] = [IdleThread EXCEPT !.pc = "holding",
                                                        !.page_id = thr[t].page_id]]
        /\ issued' = issued \cup {Issue("new_page_run", TRUE, thr[t].page_id,
                                        thr[t].instance)}
        /\ UNCHANGED <<disk, bpi, ret, eht, eret, pairs, lru, lret, mutex, bucket_page>>

\* ParallelBufferPoolManager::unpin_page(page_id, true) by the thread that
\* was handed page_id.  decrease_pin_count at pin_count 0 panics where
\* overflow is checked and wraps where it is not; a wrapped count is kept as
\* the negative number with the same bits
Pbp_unpin_page ==
    \E t \in Threads, build \in Builds :
        /\ thr[t].pc = "holding"
        /\ \E k \in {routed(pbp, thr[t].page_id)} :
              IF k >= Len(pbp.instances)
              THEN /\ build = "debug"
                   /\ thr' = [thr EXCEPT ![t].pc = "panic_index"]
                   /\ UNCHANGED pbp
              ELSE /\ pbp.lock[k + 1] = 0
                   /\ \E b \in {pbp.instances[k + 1]} :
                        IF b.poisoned
                        THEN /\ build = "debug"
                             /\ thr' = [thr EXCEPT ![t].pc = "panic_poisoned"]
                             /\ UNCHANGED pbp
                        ELSE IF thr[t].page_id \notin DOMAIN b.page_table
                        THEN /\ build = "debug"
                             /\ thr' = [thr EXCEPT ![t].pc = "panic_unwrap"]
                             /\ pbp' = [pbp EXCEPT !.instances[k + 1] =
                                           unpin_page(b, thr[t].page_id, TRUE)]
                        ELSE IF b.frames[b.page_table[thr[t].page_id]].pin_count = 0
                                  /\ build = "debug"
                        THEN /\ thr' = [thr EXCEPT ![t].pc = "panic_overflow"]
                             /\ pbp' = [pbp EXCEPT !.instances[k + 1].poisoned = TRUE]
                        ELSE /\ b.frames[b.page_table[thr[t].page_id]].pin_count # 0
                                  => build = "debug"
                             /\ thr' = [thr EXCEPT ![t] = IdleThread]
                             /\ pbp' = [pbp EXCEPT !.instances[k + 1] =
                                           unpin_page(b, thr[t].page_id, TRUE)]
        /\ UNCHANGED <<disk, issued, bpi, ret, eht, eret, pairs, lru, lret, mutex, bucket_page>>

NextPBP ==
    \/ Pbp_new_page
    \/ Run_load
    \/ Run_fetch_add
    \/ Run_try
    \/ Run_return
    \/ Pbp_unpin_page

SpecPBP == InitPBP /\ [][NextPBP]_vars

(***************************************************************************)
(* The other calls of the parallel pool (lines 195-209 and 233-248): each  *)
(* takes get_instance(page_id).lock().unwrap() and runs the instance's     *)
(* operation under it.  A panic under the mutex poisons it.                *)
(***************************************************************************)
PbpPageIds == 0 .. MaxPbpPage

\* ParallelBufferPoolManager::fetch_page(PageId(page_id)) by a thread that
\* holds no page
Pbp_fetch_page_call(t, page_id) ==
    /\ thr[t].pc = "idle"
    /\ Cardinality(issued) < MaxCalls
    /\ \E k \in {routed(pbp, page_id)} :
          IF k >= Len(pbp.instances)
          THEN /\ thr' = [thr EXCEPT ![t].pc = "panic_index"]
               /\ UNCHANGED <<pbp, disk, issued>>
          ELSE /\ pbp.lock[k + 1] = 0
               /\ IF pbp.instances[k + 1].poisoned
                  THEN /\ thr' = [thr EXCEPT ![t].pc = "panic_poisoned"]
                       /\ UNCHANGED <<pbp, disk, issued>>
                  ELSE \E r \in {fetch_page(pbp.instances[k + 1], disk, page_id)} :
                         /\ pbp' = [pbp EXCEPT !.instances[k + 1] = r.b]
                         /\ disk' = r.d
                         /\ thr' = IF r.ok
                                   THEN [thr EXCEPT ![t].pc = "holding",
                                                    ![t].page_id = page_id]
                                   ELSE thr
                         /\ issued' = issued \cup {Issue("fetch_page", r.ok, page_id, k)}
    /\ UNCHANGED <<bpi, ret, eht, eret, pairs, lru, lret, mutex, bucket_page>>

Pbp_fetch_page ==
    \E t \in Threads, page_id \in PbpPageIds : Pbp_fetch_page_call(t, page_id)

\* ParallelBufferPoolManager::flush_page(PageId(page_id))
Pbp_flush_page_call(t, page_id) ==
    /\ thr[t].pc \in {"idle", "holding"}
    /\ Cardinality(issued) < MaxCalls
    /\ \E k \in {routed(pbp, page_id)} :
          IF k >= Len(pbp.instances)
          THEN /\ thr' = [thr EXCEPT ![t].pc = "panic_index"]
               /\ UNCHANGED <<pbp, disk, issued>>
          ELSE /\ pbp.lock[k + 1] = 0
               /\ IF pbp.instances[k + 1].poisoned
                  THEN /\ thr' = [thr EXCEPT ![t].pc = "panic_poisoned"]
                       /\ UNCHANGED <<pbp, disk, issued>>
                  ELSE \E r \in {flush_page(pbp.instances[k + 1], disk, page_id)} :
                         /\ pbp' = [pbp EXCEPT !.instances[k + 1] = r.b]
                         /\ disk' = r.d
                         /\ thr' = IF r.b.poisoned
                                   THEN [thr EXCEPT ![t].pc = "panic_unwrap"]
                                   ELSE thr
                         /\ issued' = issued \cup
                                {Issue("flush_page", ~r.b.poisoned, page_id, k)}
    /\ UNCHANGED <<bpi, ret, eht, eret, pairs, lru, lret, mutex, bucket_page>>

Pbp_flush_page ==
    \E t \in Threads, page_id \in PbpPageIds : Pbp_flush_page_call(t, page_id)

\* ParallelBufferPoolManager::delete_page(PageId(page_id))
Pbp_delete_page_call(t, page_id) ==
    /\ thr[t].pc \in {"idle", "holding"}
    /\ Cardinality(issued) < MaxCalls
    /\ \E k \in {routed(pbp, page_id)} :
          IF k >= Len(pbp.instances)
          THEN /\ thr' = [thr EXCEPT ![t].pc = "panic_index"]
               /\ UNCHANGED <<pbp, issued>>
          ELSE /\ pbp.lock[k + 1] = 0
               /\ IF pbp.instances[k + 1].poisoned
                  THEN /\ thr' = [thr EXCEPT ![t].pc = "panic_poisoned"]
                       /\ UNCHANGED <<pbp, issued>>
                  ELSE \E b \in {delete_page(pbp.instances[k + 1], page_id)} :
                         /\ pbp' = [pbp EXCEPT !.instances[k + 1] = b]
                         /\ thr' = IF b.poisoned
                                   THEN [thr EXCEPT ![t].pc = "panic_pinned"]
                                   ELSE thr
                         /\ issued' = issued \cup
                                {Issue("delete_page", ~b.poisoned, page_id, k)}
    /\ UNCHANGED <<disk, bpi, ret, eht, eret, pairs, lru, lret, mutex, bucket_page>>

Pbp_delete_page ==
    \E t \in Threads, page_id \in PbpPageIds : Pbp_delete_page_call(t, page_id)

NextPBPCalls ==
    \/ Pbp_new_page
    \/ Pbp_fetch_page
    \/ Pbp_unpin_page
    \/ Pbp_flush_page
    \/ Pbp_delete_page
    \/ Run_load
    \/ Run_fetch_add
    \/ Run_try
    \/ Run_return

SpecPBPCalls == InitPBP /\ [][NextPBPCalls]_vars

(***************************************************************************)
(* LRUReplacer driven directly (buffer/replacer.rs), the whole struct:     *)
(* container is the linked list, front first; index[f] is TRUE when        *)
(* index[f] is Some(cursor).  A cursor is made on the node unpin has just  *)
(* pushed and dropped when pin or victim removes a node of its frame, so   *)
(* it always stands on the last node of its frame.                         *)
(***************************************************************************)
LRUReplacer_new(pool_size, build) ==
    [ container |-> <<>>,
      index     |-> [f \in 0 .. (pool_size - 1) |-> FALSE],
      build     |-> build,
      status    |-> "ok" ]

\* the list without its node at position i
RemoveAt(list, i) ==
    [j \in 1 .. (Len(list) - 1) |-> IF j < i THEN list[j] ELSE list[j + 1]]

\* the position of the last node of frame_id
LastNode(list, frame_id) ==
    CHOOSE i \in 1 .. Len(list) :
        /\ list[i] = frame_id
        /\ \A j \in (i + 1) .. Len(list) : list[j] # frame_id

LRUReplacer_victim(l) ==
    IF l.container = <<>> THEN [replacer |-> l, frame |-> NoFrame]
    ELSE IF l.build = "debug" /\ ~l.index[Head(l.container)]
    THEN [ replacer |-> [l EXCEPT !.container = Tail(@), !.status = "panic_assert"],
           frame    |-> NoFrame ]
    ELSE [ replacer |-> [l EXCEPT !.container = Tail(@),
                                  !.index[Head(l.container)] = FALSE],
           frame    |-> Head(l.container) ]

\* a pin that drops the cursor and leaves the node in the list
LRUReplacer_pin_kept(l, frame_id) == [l EXCEPT !.index[frame_id] = FALSE]

LRUReplacer_pin(l, frame_id) ==
    IF l.index[frame_id]
    THEN [l EXCEPT !.index[frame_id] = FALSE,
                   !.container = RemoveAt(@, LastNode(@, frame_id))]
    ELSE l

LRUReplacer_unpin(l, frame_id) ==
    IF l.build = "debug" /\ l.index[frame_id]
    THEN [l EXCEPT !.status = "panic_assert"]
    ELSE [l EXCEPT !.container = Append(@, frame_id),
                   !.index[frame_id] = TRUE]

\* frame_id is one of the frames of order
InOrder(order, frame_id) == \E i \in 1 .. Len(order) : order[i] = frame_id

\* order without frame_id
Without(order, frame_id) == SelectSeq(order, LAMBDA x : x # frame_id)

\* op, frame: the call; result: what victim returned; expected: the tracked
\* frame whose latest unpin was oldest when victim was called; order: the
\* tracked frames by latest unpin, oldest first; out: the frames pin has
\* removed and no unpin has brought back; back: the tracked frames that an
\* unpin brought back after a pin; retracked: unpin has been called on a
\* frame that was tracked
LRet(op, frame, result, expected, order, out, back, retracked) ==
    [ op |-> op, frame |-> frame, result |-> result, expected |-> expected,
      order |-> order, out |-> out, back |-> back, retracked |-> retracked ]

InitLRU ==
    \E pool_size \in 1 .. MaxLruFrames, build \in Builds :
        /\ lru = LRUReplacer_new(pool_size, build)
        /\ lret = LRet("new", NoFrame, NoFrame, NoFrame, <<>>, {}, {}, FALSE)
        /\ bpi = BufferPoolManager_new(PoolSize, NumInstances, 0)
        /\ disk = [p \in {} |-> ZeroData]
        /\ ret = Ret("new", NoPage, TRUE, FALSE, NoPage)
        /\ eht = NoTable
        /\ eret = NoCall
        /\ pairs = {}
        /\ pbp = NoPool
        /\ thr = NoThreads
        /\ issued = {}
        /\ mutex = 0
        /\ bucket_page = NoBucket

Lru_unpin ==
    \E frame_id \in DOMAIN lru.index :
        /\ lru.status = "ok"
        /\ Len(lru.container) < MaxLruLen
        /\ lru' = LRUReplacer_unpin(lru, frame_id)
        /\ lret' = LRet("unpin", frame_id, NoFrame, NoFrame,
                        Append(Without(lret.order, frame_id), frame_id),
                        lret.out \ {frame_id},
                        IF frame_id \in lret.out
                        THEN lret.back \cup {frame_id} ELSE lret.back,
                        lret.retracked \/ InOrder(lret.order, frame_id))
        /\ UNCHANGED <<bpi, disk, ret, eht, eret, pairs, pbp, thr, issued, mutex, bucket_page>>

Lru_pin ==
    \E frame_id \in DOMAIN lru.index :
        /\ lru.status = "ok"
        /\ lru' = LRUReplacer_pin(lru, frame_id)
        /\ lret' = LRet("pin", frame_id, NoFrame, NoFrame,
                        Without(lret.order, frame_id),
                        IF InOrder(lret.order, frame_id)
                        THEN lret.out \cup {frame_id} ELSE lret.out,
                        lret.back \ {frame_id},
                        lret.retracked)
        /\ UNCHANGED <<bpi, disk, ret, eht, eret, pairs, pbp, thr, issued, mutex, bucket_page>>

Lru_victim ==
    /\ lru.status = "ok"
    /\ \E r \in {LRUReplacer_victim(lru)} :
           /\ lru' = r.replacer
           /\ lret' = LRet("victim", NoFrame, r.frame,
                           IF lret.order = <<>> THEN NoFrame ELSE Head(lret.order),
                           IF lret.order = <<>> THEN <<>> ELSE Tail(lret.order),
                           lret.out,
                           lret.back \ {r.frame},
                           lret.retracked)
    /\ UNCHANGED <<bpi, disk, ret, eht, eret, pairs, pbp, thr, issued, mutex, bucket_page>>

NextLRU ==
    \/ Lru_unpin
    \/ Lru_pin
    \/ Lru_victim

SpecLRU == InitLRU /\ [][NextLRU]_vars


(***************************************************************************)
(* One pool instance behind its Mutex, called by threads that keep the     *)
(* payload lock of a page (Data = Arc<RwLock<Align4096>>) across           *)
(* unpin_page, as ExtendibleHashTable::remove (lines 144-157) and          *)
(* parallel_buffer_pool_test (lines 276-279) do.  A call is three steps:   *)
(* the caller reaches lock(), it gets the mutex, and the operation runs    *)
(* once the payload locks it takes under the mutex are free.               *)
(***************************************************************************)
LockThreads == 1 .. NumLockThreads

\* pc: where the thread is; op, page_id, is_dirty: the call it is in;
\* frame: the frame whose payload its handle refers to (NoFrame: it has no
\* handle, or reset_data has given the frame another payload); guard: the
\* guard it holds on that payload
IdleCaller ==
    [ pc |-> "idle", op |-> "none", page_id |-> NoPage, is_dirty |-> FALSE,
      frame |-> NoFrame, guard |-> "none" ]

\* the frames whose payload lock the operation takes while it runs under
\* the mutex: get_data().read() before write_page in flush_page (line 114),
\* flush_all_pages (158), fetch_page (85) and new_page (124), and
\* get_data().write() for read_page in fetch_page (93)
payload_locks(b, op, page_id) ==
    CASE op = "flush_page" ->
           IF page_id \in DOMAIN b.page_table /\ b.frames[b.page_table[page_id]].is_dirty
           THEN {b.page_table[page_id]} ELSE {}
      [] op = "flush_all_pages" ->
           {f \in DOMAIN b.frames : b.frames[f].is_dirty}
      [] op = "fetch_page" ->
           IF page_id \in DOMAIN b.page_table \/ b.replacer = <<>>
           THEN {} ELSE {Head(b.replacer)}
      [] op = "new_page" ->
           LET f == alloc_frame(b).frame
           IN  IF f # NoFrame /\ b.frames[f].is_dirty THEN {f} ELSE {}
      [] OTHER -> {}

\* read() and write() return at once: no other thread holds a write guard
\* on the payload of frame f
payload_free(t, f) ==
    \A u \in LockThreads : u # t => ~(thr[u].guard = "write" /\ thr[u].frame = f)

InitLocks ==
    /\ bpi = BufferPoolManager_new(PoolSize, NumInstances, 0)
    /\ disk = [p \in {} |-> ZeroData]
    /\ thr = [t \in LockThreads |-> IdleCaller]
    /\ mutex = 0
    /\ ret = Ret("new", NoPage, TRUE, FALSE, NoPage)
    /\ eht = NoTable
    /\ eret = NoCall
    /\ pairs = {}
    /\ pbp = NoPool
    /\ issued = {}
    /\ lru = NoReplacer
    /\ lret = NoCall
    /\ bucket_page = NoBucket

\* a thread that holds nothing calls new_page, fetch_page, flush_page or
\* flush_all_pages
Lk_call ==
    \E t \in LockThreads, page_id \in PageIds,
       op \in {"new_page", "fetch_page", "flush_page", "flush_all_pages"} :
        /\ thr[t].pc = "idle"
        /\ op = "new_page" => bpi.next_page_id \in PageIds
        /\ op = "flush_page" => page_id \in DOMAIN bpi.page_table
        /\ thr' = [thr EXCEPT ![t] = [IdleCaller EXCEPT
                      !.pc = "lock", !.op = op,
                      !.page_id = IF op \in {"fetch_page", "flush_page"}
                                  THEN page_id ELSE NoPage]]
        /\ UNCHANGED <<bpi, disk, mutex, ret, eht, eret, pairs, pbp, issued, lru, lret, bucket_page>>

\* lock().unwrap()
Lk_lock ==
    \E t \in LockThreads :
        /\ thr[t].pc = "lock"
        /\ mutex = 0
        /\ IF bpi.poisoned
           THEN /\ thr' = [thr EXCEPT ![t].pc = "panic_poisoned"]
                /\ UNCHANGED mutex
           ELSE /\ thr' = [thr EXCEPT ![t].pc = "locked"]
                /\ mutex' = t
        /\ UNCHANGED <<bpi, disk, ret, eht, eret, pairs, pbp, issued, lru, lret, bucket_page>>

\* the operation runs under the mutex and the guard is dropped
Lk_run ==
    \E t \in LockThreads :
        /\ thr[t].pc = "locked"
        /\ \A f \in payload_locks(bpi, thr[t].op, thr[t].page_id) : payload_free(t, f)
        /\ mutex' = 0
        /\ CASE thr[t].op = "new_page" ->
                  \E r \in {new_page(bpi, disk)} :
                     /\ bpi' = r.b
                     /\ disk' = r.d
                     /\ thr' = IF ~r.ok THEN [thr EXCEPT ![t] = IdleCaller]
                               ELSE [u \in LockThreads |->
                                       IF u = t
                                       THEN [thr[t] EXCEPT !.pc = "pinned",
                                                !.page_id = r.page_id,
                                                !.frame = r.b.page_table[r.page_id]]
                                       ELSE IF thr[u].frame = r.b.page_table[r.page_id]
                                       THEN [thr[u] EXCEPT !.frame = NoFrame]
                                       ELSE thr[u]]
             [] thr[t].op = "fetch_page" ->
                  \E r \in {fetch_page(bpi, disk, thr[t].page_id)} :
                     /\ bpi' = r.b
                     /\ disk' = r.d
                     /\ thr' = IF ~r.ok THEN [thr EXCEPT ![t] = IdleCaller]
                               ELSE [thr EXCEPT ![t].pc = "pinned",
                                                ![t].frame = r.b.page_table[thr[t].page_id]]
             [] thr[t].op = "flush_page" ->
                  \E r \in {flush_page(bpi, disk, thr[t].page_id)} :
                     /\ bpi' = r.b
                     /\ disk' = r.d
                     /\ thr' = IF r.b.poisoned
                               THEN [thr EXCEPT ![t].pc = "panic_unwrap"]
                               ELSE [thr EXCEPT ![t] = IdleCaller]
             [] thr[t].op = "flush_all_pages" ->
                  /\ disk' = flush_all_pages(bpi, disk)
                  /\ thr' = [thr EXCEPT ![t] = IdleCaller]
                  /\ UNCHANGED bpi
             [] thr[t].op = "unpin_page" ->
                  /\ bpi' = unpin_page(bpi, thr[t].page_id, thr[t].is_dirty)
                  /\ thr' = [thr EXCEPT ![t].pc = "unpinned"]
                  /\ UNCHANGED disk
        /\ UNCHANGED <<ret, eht, eret, pairs, pbp, issued, lru, lret, bucket_page>>

\* page.write().unwrap() on the handle, then a store through the guard
Lk_write_guard ==
    \E t \in LockThreads, byte \in 1 .. MaxByte :
        /\ thr[t].pc = "pinned"
        /\ payload_free(t, thr[t].frame)
        /\ thr' = [thr EXCEPT ![t].pc = "guarded", ![t].guard = "write"]
        /\ bpi' = IF thr[t].frame = NoFrame THEN bpi
                  ELSE [bpi EXCEPT !.frames[thr[t].frame].data = RawData(byte)]
        /\ UNCHANGED <<disk, mutex, ret, eht, eret, pairs, pbp, issued, lru, lret, bucket_page>>

\* unpin_page(page_id, is_dirty) is called with the guard still held
Lk_unpin_page ==
    \E t \in LockThreads, is_dirty \in BOOLEAN :
        /\ thr[t].pc = "guarded"
        /\ thr' = [thr EXCEPT ![t].pc = "lock", ![t].op = "unpin_page",
                              ![t].is_dirty = is_dirty]
        /\ UNCHANGED <<bpi, disk, mutex, ret, eht, eret, pairs, pbp, issued, lru, lret, bucket_page>>

\* the guard goes out of scope
Lk_drop_guard ==
    \E t \in LockThreads :
        /\ thr[t].pc = "unpinned"
        /\ thr' = [thr EXCEPT ![t] = IdleCaller]
        /\ UNCHANGED <<bpi, disk, mutex, ret, eht, eret, pairs, pbp, issued, lru, lret, bucket_page>>

NextLocks ==
    \/ Lk_call
    \/ Lk_lock
    \/ Lk_run
    \/ Lk_write_guard
    \/ Lk_unpin_page
    \/ Lk_drop_guard

SpecLocks == InitLocks /\ [][NextLocks]_vars


(***************************************************************************)
(* Properties of the buffer pool instance.                                 *)
(***************************************************************************)
Frames == 0 .. (bpi.pool_size - 1)

InFreeList(b, f) == \E i \in 1 .. Len(b.free_list) : b.free_list[i] = f

InReplacer(b, f) == \E i \in 1 .. Len(b.replacer) : b.replacer[i] = f

IsPinned(b, f) == b.frames[f].pin_count > 0

\* the call of this step took its frame from a page other than page_id
CallOnOtherPage(page_id) ==
    /\ ret'.op \in {"fetch_page", "new_page", "unpin_page", "flush_page",
                    "delete_page", "flush_all_pages"}
    /\ ret'.page_id # page_id

\* C3: while a page is pinned, no call on another page reassigns its frame,
\* changes its pin count or removes it from the page table.
C3_PinnedPageKeepsFrame ==
    [][ \A page_id \in DOMAIN bpi.page_table :
          LET f == bpi.page_table[page_id]
          IN  (IsPinned(bpi, f) /\ CallOnOtherPage(page_id))
                => /\ page_id \in DOMAIN bpi'.page_table
                   /\ bpi'.page_table[page_id] = f
                   /\ bpi'.frames[f].page_id = page_id
                   /\ bpi'.frames[f].pin_count = bpi.frames[f].pin_count ]_vars

\* C4: when a fetch_page miss or new_page takes a frame that holds a dirty
\* page, that payload is on disk under the page's own id once the frame has
\* been given away, and a fetch_page miss hands out what disk holds for the id.
C4_DirtyVictimWrittenBack ==
    [][ /\ \A f \in Frames :
              (/\ bpi.frames[f].is_dirty
               /\ ret'.op \in {"fetch_page", "new_page"}
               /\ bpi'.frames[f] # bpi.frames[f]
               /\ ~(ret'.op = "fetch_page" /\ ret'.hit))
                => /\ bpi.frames[f].page_id \in DOMAIN disk'
                   /\ disk'[bpi.frames[f].page_id] = bpi.frames[f].data
        /\ (ret'.op = "fetch_page" /\ ret'.ok /\ ~ret'.hit
              /\ ret'.page_id \in DOMAIN disk')
                => bpi'.frames[bpi'.page_table[ret'.page_id]].data = disk'[ret'.page_id]
      ]_vars

\* a dirty page carrying bytes the caller wrote was written back by the call
\* that took its frame, and is no longer resident
C4_Witness ==
    /\ ret.op \in {"fetch_page", "new_page"}
    /\ ret.wrote # NoPage
    /\ ret.wrote # ret.page_id
    /\ ret.wrote \notin DOMAIN bpi.page_table
    /\ disk[ret.wrote].kind = "raw"

\* C5: every frame is in exactly one of: the free list, the replacer, pinned.
C5_FrameInExactlyOnePlace ==
    \A f \in Frames :
        /\ InFreeList(bpi, f) \/ InReplacer(bpi, f) \/ IsPinned(bpi, f)
        /\ ~(InFreeList(bpi, f) /\ InReplacer(bpi, f))
        /\ ~(InFreeList(bpi, f) /\ IsPinned(bpi, f))
        /\ ~(InReplacer(bpi, f) /\ IsPinned(bpi, f))

\* C6: the page table maps each resident page to the frame that holds it, no
\* two pages to one frame, and its keys are the page ids of the frames that
\* hold a page and are not in the free list.
C6_PageTableMatchesFrames ==
    /\ \A page_id \in DOMAIN bpi.page_table :
          /\ bpi.page_table[page_id] \in Frames
          /\ bpi.frames[bpi.page_table[page_id]].page_id = page_id
    /\ \A p, q \in DOMAIN bpi.page_table :
          bpi.page_table[p] = bpi.page_table[q] => p = q
    /\ DOMAIN bpi.page_table =
          { bpi.frames[f].page_id :
              f \in {g \in Frames : /\ bpi.frames[g].page_id # NoPage
                                    /\ ~InFreeList(bpi, g)} }

\* C7: a fetch_page of a page that is not resident returns a handle pinned
\* once and clean, and returns absent only when there is neither a free frame
\* nor an evictable one.
C7_FetchMissUsesAnyFrame ==
    (ret.op = "fetch_page" /\ ~ret.hit)
        => IF ret.ok
           THEN /\ ret.page_id \in DOMAIN bpi.page_table
                /\ bpi.frames[bpi.page_table[ret.page_id]].pin_count = 1
                /\ ~bpi.frames[bpi.page_table[ret.page_id]].is_dirty
           ELSE bpi.free_list = <<>> /\ bpi.replacer = <<>>

\* every frame of the instance is pinned
AllPinned(b) == \A f \in DOMAIN b.frames : IsPinned(b, f)

\* C15: when every frame is pinned, new_page and a fetch_page of a page that
\* is not resident return absent and change nothing in the instance; new_page
\* returns absent in no other case.
C15_AllPinnedReturnsAbsent ==
    [][ /\ (AllPinned(bpi) /\ ret'.op = "new_page")
              => (~ret'.ok /\ bpi' = bpi)
        /\ (AllPinned(bpi) /\ ret'.op = "fetch_page" /\ ~ret'.hit)
              => (~ret'.ok /\ bpi' = bpi)
        /\ (ret'.op = "new_page" /\ ~ret'.ok)
              => (AllPinned(bpi) /\ bpi' = bpi)
      ]_vars

\* C16: unpin_page leaves the frame dirty exactly when it was dirty before or
\* the call said dirty; a dirty flag goes from true to false only in the
\* fetch_page that takes the frame for another page, after the payload has
\* been written to disk under the old page id.
C16_UnpinNeverClearsDirty ==
    [][ \A f \in Frames :
          /\ (/\ ret'.op = "unpin_page"
              /\ bpi.page_table[ret'.page_id] = f)
                => bpi'.frames[f].is_dirty = (bpi.frames[f].is_dirty \/ ret'.is_dirty)
          /\ (bpi.frames[f].is_dirty /\ ~bpi'.frames[f].is_dirty)
                => /\ ret'.op = "fetch_page"
                   /\ ~ret'.hit
                   /\ ret'.wrote = bpi.frames[f].page_id
                   /\ disk'[bpi.frames[f].page_id] = bpi.frames[f].data
      ]_vars

\* a page that was dirty has been unpinned as clean and is still dirty
C16_Witness ==
    /\ ret.op = "unpin_page"
    /\ ~ret.is_dirty
    /\ ret.page_id \in DOMAIN bpi.page_table
    /\ bpi.frames[bpi.page_table[ret.page_id]].is_dirty
    /\ bpi.frames[bpi.page_table[ret.page_id]].data # ZeroData

\* C17: delete_page of a resident page that is pinned panics and changes
\* nothing in the instance; of a resident page that is not pinned it removes
\* the page from the page table, puts its frame on the free list and makes
\* its id the next one alloc_page_id returns.
C17_DeletePinnedIsFatal ==
    [][ (ret'.op = "delete_page" /\ ret'.hit) =>
          LET page_id == ret'.page_id
              f       == bpi.page_table[page_id]
          IN  IF bpi.frames[f].pin_count > 0
              THEN /\ ~ret'.ok
                   /\ bpi'.poisoned
                   /\ [bpi' EXCEPT !.poisoned = FALSE] = bpi
              ELSE /\ ret'.ok
                   /\ page_id \notin DOMAIN bpi'.page_table
                   /\ bpi'.free_list = Append(bpi.free_list, f)
                   /\ alloc_page_id(bpi').page_id = page_id
      ]_vars

\* a resident unpinned page has been deleted while another page stays resident
C17_Witness ==
    /\ ret.op = "delete_page"
    /\ ret.hit
    /\ ret.ok
    /\ ret.page_id \notin DOMAIN bpi.page_table
    /\ bpi.deleted_page_ids # <<>>
    /\ bpi.deleted_page_ids[Len(bpi.deleted_page_ids)] = ret.page_id
    /\ DOMAIN bpi.page_table # {}

\* what disk holds for a page id, if anything
OnDisk(d, page_id) == IF page_id \in DOMAIN d THEN d[page_id] ELSE [kind |-> "none"]

\* C18: a new_page that returns a handle returns a page id that was not
\* resident, in a frame pinned once, dirty, zero-filled, in the page table and
\* not in the replacer; it leaves what disk holds for the new id alone, and
\* the dirty payload the frame held before is on disk.
C18_NewPageIsFreshZeroedDirty ==
    [][ (ret'.op = "new_page" /\ ret'.ok) =>
          /\ ret'.page_id \notin DOMAIN bpi.page_table
          /\ ret'.page_id \in DOMAIN bpi'.page_table
          /\ LET f == bpi'.page_table[ret'.page_id]
             IN  /\ bpi'.frames[f] = [ data |-> ZeroData, page_id |-> ret'.page_id,
                                       is_dirty |-> TRUE, pin_count |-> 1 ]
                 /\ ~InReplacer(bpi', f)
                 /\ bpi.frames[f].is_dirty
                       => OnDisk(disk', bpi.frames[f].page_id) = bpi.frames[f].data
          /\ OnDisk(disk', ret'.page_id) = OnDisk(disk, ret'.page_id)
      ]_vars

\* C19: after flush_all_pages every resident dirty page is on disk as it is in
\* memory, and a pool constructed anew over that disk returns, for a page that
\* was resident, a handle with the bytes the disk holds.
C19_FlushAllThenReconstruct ==
    [][ /\ ret'.op = "flush_all_pages" =>
              \A page_id \in DOMAIN bpi'.page_table :
                  bpi'.frames[bpi'.page_table[page_id]].is_dirty
                      => OnDisk(disk', page_id) = bpi'.frames[bpi'.page_table[page_id]].data
        /\ (/\ ret.op = "reconstruct"
            /\ ret'.op = "fetch_page"
            /\ ret'.page_id \in ret.resident)
              => /\ ret'.ok
                 /\ ret'.page_id \in DOMAIN bpi'.page_table
                 /\ bpi'.frames[bpi'.page_table[ret'.page_id]].data = OnDisk(disk', ret'.page_id)
      ]_vars

(***************************************************************************)
(* Properties of the parallel buffer pool.                                 *)
(***************************************************************************)
\* the instance at position k has a frame to give: free or evictable
HasFrame(p, k) ==
    p.instances[k + 1].free_list # <<>> \/ p.instances[k + 1].replacer # <<>>

C12_IdsRouteToOwner ==
    /\ Len(pbp.instances) = pbp.num_instances
    /\ \A k \in 1 .. Len(pbp.instances) : pbp.instances[k].instance_index = k - 1
    /\ \A page_id \in Seeds : routed(pbp, page_id) < Len(pbp.instances)
    /\ \A c \in issued : c.ok => routed(pbp, c.page_id) = c.instance

\* C13: start_index is always a position new_page_run can split the instance
\* list at, no new_page_run call panics, and a new_page_run call returns
\* absent only after it has tried every instance.
C13_RoundRobinIndexStaysValid ==
    /\ pbp.start_index <= Len(pbp.instances)
    /\ \A t \in Threads : thr[t].pc # "panic_split_at"
    /\ \A c \in issued :
          (c.op = "new_page_run" /\ ~c.ok) => c.instance = Len(pbp.instances)

\* C14: the page ids handed out by new_page_run are pairwise distinct, and no
\* thread that asks for a page is stopped by a panic of new_page_run.
C14_RoundRobinIdsDistinct ==
    /\ \A i, j \in issued :
          (/\ i.op = "new_page_run" /\ j.op = "new_page_run"
           /\ i.ok /\ j.ok /\ i # j) => i.page_id # j.page_id
    /\ \A t \in Threads : thr[t].pc # "panic_split_at"

(***************************************************************************)
(* Properties of the hash table.                                           *)
(***************************************************************************)
\* what a page holds: its frame's payload if resident, else the disk's
PageContent(page_id) ==
    IF page_id \in DOMAIN bpi.page_table
    THEN bpi.frames[bpi.page_table[page_id]].data
    ELSE disk[page_id]

Directory == AsDir(PageContent(eht.dir_page_id))

\* the directory has not grown past its array
WithinCapacity == Pow2(Directory.global_depth) <= DIRECTORY_ARRAY_SIZE

\* the values the pages hold under key, found the way get_value finds them
Lookup(key) ==
    LET bucket_pid == Directory.page_ids[key_to_index(eht, key, Directory)]
    IN  bucket_get_value(AsBucket(PageContent(bucket_pid), eht.kv_num), key)

Occurrences(seq, x) == Cardinality({i \in 1 .. Len(seq) : seq[i] = x})

Range(seq) == {seq[i] : i \in 1 .. Len(seq)}

\* C1: while the directory stays within its capacity the table is a set of
\* pairs: insert returns true exactly when the pair was absent, remove
\* returns true exactly when it was present, get_value returns exactly the
\* values stored under the key.
C1_TableIsSetOfPairs ==
    WithinCapacity =>
        /\ eret.op = "insert" =>
              eret.returned /\ eret.result = ~eret.present
        /\ eret.op = "remove" =>
              eret.returned /\ eret.result = eret.present
        /\ eret.op = "get_value" =>
              /\ eret.returned
              /\ Range(eret.values) = eret.expected
              /\ Len(eret.values) = Cardinality(eret.expected)

\* C2: once a bucket has been split every stored pair is still found in the
\* bucket page the directory maps hash(key) & mask to.
C2_NoPairLostBySplit ==
    eret.splits > 0 =>
        \A p \in pairs : Occurrences(Lookup(p[1]), p[2]) >= 1

\* C8: every insert call that stays within the directory's capacity returns,
\* with every frame it touched unpinned, after no more splits than the
\* directory has depth levels.
C8_InsertTerminates ==
    (WithinCapacity /\ eret.op = "insert") =>
        /\ eret.returned
        /\ \A f \in DOMAIN bpi.frames : bpi.frames[f].pin_count = 0
        /\ Pow2(eret.splits) <= DIRECTORY_ARRAY_SIZE

\* C9: insert of a pair the table does not hold returns true, also when the
\* bucket is full and must split; insert of a pair it holds returns false;
\* either way get_value then holds the value exactly once.
C9_InsertTwiceStoresOnce ==
    (WithinCapacity /\ eret.op = "insert") =>
        /\ eret.returned
        /\ eret.result = ~eret.present
        /\ Occurrences(Lookup(eret.key), eret.value) = 1

\* C10: an insert whose split would need a global depth above 9 returns
\* false: the global depth never becomes 10 and no directory slot at or past
\* 512 is indexed.
C10_CapacityExhaustedReturnsFalse ==
    /\ WithinCapacity
    /\ eht.status # "panic_index"
    /\ (eret.op = "insert" /\ eret.splits > 0 /\ eht.kv_num = 0) =>
          eret.returned /\ ~eret.result

\* C20: local_depth[i] <= global_depth for every slot i below
\* 1 << global_depth, after construction and after every insert.
C20_LocalDepthAtMostGlobal ==
    \A i \in Slots :
        i < Pow2(Directory.global_depth)
            => Directory.local_depth[i] <= Directory.global_depth

\* an insert has split buckets both ways and slots differ in local depth
C20_Witness ==
    /\ eret.op = "insert"
    /\ eret.splits >= 2
    /\ Directory.global_depth >= 1
    /\ \E i, j \in Slots :
          /\ i < Pow2(Directory.global_depth)
          /\ j < Pow2(Directory.global_depth)
          /\ Directory.local_depth[i] < Directory.local_depth[j]

\* the slots the directory uses
ActiveSlots == {i \in Slots : i < Pow2(Directory.global_depth)}

\* C21: in every directory state two active slots reference the same bucket
\* page id iff they agree on the low local_depth[i] bits, and all slots that
\* reference one bucket carry the same local depth.
C21_SiblingSlotsShareBucket ==
    \A i, j \in ActiveSlots :
        /\ (Directory.page_ids[i] = Directory.page_ids[j])
              <=> (i % Pow2(Directory.local_depth[i]) = j % Pow2(Directory.local_depth[i]))
        /\ (Directory.page_ids[i] = Directory.page_ids[j])
              => (Directory.local_depth[i] = Directory.local_depth[j])

(***************************************************************************)
(* Properties of the replacer driven directly.                             *)
(***************************************************************************)
\* C22 as stated: for any sequence of unpin, pin and victim calls every call
\* returns, victim returns the tracked frame whose latest unpin is oldest
\* (absent when none is tracked) and never a frame pin has removed and no
\* unpin has brought back, and the list holds the tracked frames in the
\* order of their latest unpin, so a frame unpinned again after a pin comes
\* after all frames already tracked.
C22_LruOrderAnySequence ==
    /\ lru.status = "ok"
    /\ lret.op = "victim" =>
          /\ lret.result = lret.expected
          /\ lret.result \notin lret.out
    /\ lru.container = lret.order

\* C22 for the sequences that keep unpin's precondition (unpin is never
\* called on a frame that is tracked): every call returns, victim returns
\* the tracked frame whose latest unpin is oldest and never a frame pin has
\* removed, and the list is in the order of the latest unpins.
C22_LruOrder ==
    ~lret.retracked =>
        /\ lru.status = "ok"
        /\ lret.op = "victim" =>
              /\ lret.result = lret.expected
              /\ lret.result \notin lret.out
        /\ lru.container = lret.order

\* victim has returned a frame while pin holds another out of the list, and
\* what is left is one frame that an unpin brought back after a pin
C22_Witness ==
    /\ ~lret.retracked
    /\ lret.op = "victim"
    /\ lret.result # NoFrame
    /\ lret.out # {}
    /\ \E f \in lret.back : lru.container = <<f>>

(***************************************************************************)
(* Properties of the calls of the parallel pool.                           *)
(***************************************************************************)
\* C23: a fetch_page, new_page, unpin_page, flush_page or delete_page call
\* of the parallel pool whose page id satisfies pid mod N = k changes the
\* state of instance k only: every instance that a step changes is the one
\* the page id of the step's call maps to (new_page_run is excepted).
C23_OnlyRoutedInstanceChanges ==
    [][\A j \in 1 .. Len(pbp.instances) :
          pbp'.instances[j] # pbp.instances[j] =>
              \/ \E t \in Threads : thr[t].pc = "run_try" /\ thr'[t] # thr[t]
              \/ \E i \in issued' \ issued :
                    /\ i.op \in {"new_page", "fetch_page", "flush_page", "delete_page"}
                    /\ i.page_id % pbp.num_instances = j - 1
              \/ \E t \in Threads :
                    /\ thr[t].pc = "holding"
                    /\ thr'[t] # thr[t]
                    /\ issued' = issued
                    /\ thr[t].page_id % pbp.num_instances = j - 1]_vars

\* delete_page has taken a page out of one instance while another instance
\* holds a page
C23_Witness ==
    \E i \in issued, j \in 1 .. Len(pbp.instances) :
        /\ i.op = "delete_page"
        /\ i.ok
        /\ i.instance # j - 1
        /\ pbp.instances[i.instance + 1].deleted_page_ids = <<i.page_id>>
        /\ DOMAIN pbp.instances[j].page_table # {}

(***************************************************************************)
(* Properties of the locks.                                                *)
(***************************************************************************)
\* C24: no deadlock between the instance's mutex and a payload lock: never
\* does one thread wait in unpin_page for the mutex, holding a page's write
\* guard, while the thread inside the mutex (in flush_page,
\* flush_all_pages, or a fetch_page or new_page that evicts) waits for the
\* lock of that payload; so both calls complete.
C24_NoLockCycle ==
    \A a, b \in LockThreads :
        ~ /\ a # b
          /\ thr[a].pc = "lock"
          /\ thr[a].op = "unpin_page"
          /\ thr[a].guard = "write"
          /\ mutex = b
          /\ thr[b].pc = "locked"
          /\ thr[a].frame \in payload_locks(bpi, thr[b].op, thr[b].page_id)

(***************************************************************************)
(* Properties of one bucket split.                                         *)
(***************************************************************************)
\* the slots of the directory that reference page_id
SlotsOf(dir, page_id) ==
    {i \in Slots : i < Pow2(dir.global_depth) /\ dir.page_ids[i] = page_id}

\* C25: when a full bucket with local_depth = global_depth is split (and
\* the doubled directory fits the array), global_depth increases by one,
\* the upper half of the directory replicates the lower half, slot
\* bucket_index + B (B the directory size before) points to the newly
\* allocated bucket, and slots bucket_index and bucket_index + B both end
\* with local depth old_local_depth + 1.
C25_SplitDoublesDirectory ==
    [][(/\ eret'.op = "insert_level"
        /\ eret'.result = "Full"
        /\ eret'.local_depth = Directory.global_depth
        /\ 2 * Pow2(Directory.global_depth) <= DIRECTORY_ARRAY_SIZE)
       => LET B  == Pow2(Directory.global_depth)
              bi == eret'.bucket_index
          IN  /\ Directory'.global_depth = Directory.global_depth + 1
              /\ \A i \in 0 .. (B - 1) :
                    /\ Directory'.page_ids[i] = Directory.page_ids[i]
                    /\ i # bi => /\ Directory'.page_ids[B + i] = Directory.page_ids[i]
                                 /\ Directory'.local_depth[i] = Directory.local_depth[i]
                                 /\ Directory'.local_depth[B + i] = Directory.local_depth[i]
              /\ \A i \in 0 .. (B - 1) :
                    Directory'.page_ids[bi + B] # Directory.page_ids[i]
              /\ Directory'.local_depth[bi] = eret'.local_depth + 1
              /\ Directory'.local_depth[bi + B] = eret'.local_depth + 1]_vars

\* C26: when a full bucket with local_depth < global_depth is split,
\* global_depth is unchanged, exactly half of the slots that pointed to the
\* splitting bucket (every other one of the progression with stride
\* 1 << old_local_depth) point to one new bucket, every slot of either half
\* gets local depth old_local_depth + 1, and no slot that pointed to another
\* bucket is modified.
C26_SplitKeepsDirectorySize ==
    [][(/\ eret'.op = "insert_level"
        /\ eret'.result = "Full"
        /\ eret'.local_depth < Directory.global_depth)
       => LET old   == SlotsOf(Directory, eret'.bucket_pid)
              moved == {i \in old : Directory'.page_ids[i] # eret'.bucket_pid}
              cycle == Pow2(eret'.local_depth)
          IN  /\ Directory'.global_depth = Directory.global_depth
              /\ 2 * Cardinality(moved) = Cardinality(old)
              /\ \A i \in old : (i + cycle \in old) => ((i \in moved) # (i + cycle \in moved))
              /\ \A i, j \in moved :
                    /\ Directory'.page_ids[i] = Directory'.page_ids[j]
                    /\ SlotsOf(Directory, Directory'.page_ids[i]) = {}
              /\ \A i \in old : Directory'.local_depth[i] = eret'.local_depth + 1
              /\ \A i \in Slots :
                    (i < Pow2(Directory.global_depth) /\ i \notin old) =>
                        /\ Directory'.page_ids[i] = Directory.page_ids[i]
                        /\ Directory'.local_depth[i] = Directory.local_depth[i]]_vars

(***************************************************************************)
(* Properties of the pin counts.                                           *)
(***************************************************************************)
\* the pin count of a resident page
PinCount(b, page_id) == b.frames[b.page_table[page_id]].pin_count

\* C27: for every resident page pin_count is the number of successful
\* fetch_page / new_page calls for it minus the number of unpin_page calls
\* since it became resident (each call moves it by one from its value
\* before, 0 for a page that was not resident); it never goes below zero and
\* an unpin_page at pin_count 0 neither wraps it nor corrupts the instance;
\* the frame is tracked by the replacer exactly when pin_count is 0.
C27_PinCountCountsBorrows ==
    [][/\ ret'.op = "unpin_page" => ~bpi'.poisoned
       /\ \A page_id \in DOMAIN bpi'.page_table :
             LET before == IF page_id \in DOMAIN bpi.page_table
                           THEN PinCount(bpi, page_id) ELSE 0
                 delta  == IF ret'.page_id # page_id THEN 0
                           ELSE IF ret'.op \in {"fetch_page", "new_page"} /\ ret'.ok THEN 1
                           ELSE IF ret'.op = "unpin_page" THEN -1
                           ELSE 0
             IN  /\ PinCount(bpi', page_id) = before + delta
                 /\ PinCount(bpi', page_id) >= 0
                 /\ InReplacer(bpi', bpi'.page_table[page_id])
                       <=> PinCount(bpi', page_id) = 0]_vars

(***************************************************************************)
(* Properties of the pins the hash table takes.                            *)
(***************************************************************************)
\* the pages of the pool that some caller still holds pinned
PinnedPages(b) == {p \in DOMAIN b.page_table : b.frames[b.page_table[p]].pin_count # 0}

\* C28: every get_value, insert and remove call, an insert that splits
\* included, unpins each page it pinned exactly once: after the call the
\* directory page and every bucket page have the pin count they had before
\* it, which is 0 with the single caller
C28_CallsUnpinWhatTheyPin ==
    eret.op \in {"get_value", "insert", "remove"} => PinnedPages(bpi) = {}

C30_NoLiveIdReissued ==
    [][(ret'.op = "new_page" /\ ret'.ok) =>
          /\ bpi.deleted_page_ids # <<>> =>
                /\ ret'.page_id = bpi.deleted_page_ids[Len(bpi.deleted_page_ids)]
                /\ bpi'.next_page_id = bpi.next_page_id
          /\ bpi.deleted_page_ids = <<>> =>
                /\ ret'.page_id = bpi.next_page_id
                /\ ret'.page_id % bpi.num_instances = bpi.instance_index
                /\ bpi'.next_page_id = bpi.next_page_id + bpi.num_instances
          /\ ret'.page_id \notin issued]_vars

(***************************************************************************)
(* Properties of the rotation of new_page_run.                             *)
(***************************************************************************)
\* C31: new_page_run goes through the instances in rotation order from the
\* start_index it loaded, and on the first success it sets start_index to
\* the position in the instance list of the instance that served the call.
C31_StartIndexIsServingInstance ==
    [][\A t \in Threads :
          (thr[t].pc = "run_try" /\ thr'[t].pc = "run_f") =>
              /\ thr'[t].instance =
                     (thr[t].start + thr[t].pos) % Len(pbp.instances)
              /\ pbp'.start_index = thr'[t].instance]_vars

(***************************************************************************)
(* Properties of the bucket page.                                          *)
(***************************************************************************)
\* the slots of a bucket that are readable and hold the pair
Holding(b, key, value) ==
    {i \in 1 .. Len(b.kvs) : b.readable[i] /\ b.kvs[i] = <<key, value>>}

\* the slots of a bucket that are not readable
Unreadable(b) == {i \in 1 .. Len(b.kvs) : ~b.readable[i]}

\* C32: bucket insert(key, value) returns Duplicate iff a readable slot
\* already holds exactly the pair, also when the bucket is full, and then
\* changes nothing; otherwise it returns Full iff no slot is unreadable,
\* changing nothing; otherwise it writes the pair at the smallest unreadable
\* slot, sets only that readable bit and returns Success; so no two
\* readable slots ever hold the same pair.
C32_BucketInsert ==
    [][/\ eret'.op = "bucket_insert" =>
            LET dup  == Holding(bucket_page, eret'.key, eret'.value) # {}
                free == Unreadable(bucket_page)
            IN  /\ eret'.result = "Duplicate" <=> dup
                /\ dup => bucket_page' = bucket_page
                /\ ~dup => (eret'.result = "Full" <=> free = {})
                /\ eret'.result = "Full" => bucket_page' = bucket_page
                /\ (~dup /\ free # {}) =>
                      \E m \in free :
                          /\ \A j \in free : m <= j
                          /\ eret'.result = "Success"
                          /\ bucket_page' =
                                [bucket_page EXCEPT
                                    !.kvs[m] = <<eret'.key, eret'.value>>,
                                    !.readable[m] = TRUE]
       /\ \A key \in Keys, value \in Values :
             Cardinality(Holding(bucket_page', key, value)) <= 1]_vars

\* insert found its pair in a bucket without an unreadable slot and
\* returned Duplicate
C32_Witness ==
    /\ eret.op = "bucket_insert"
    /\ eret.result = "Duplicate"
    /\ Len(bucket_page.kvs) = MaxSlots
    /\ Unreadable(bucket_page) = {}

====
